---- MODULE Spec2Model ----
(***************************************************************************)
(* issy: the issue store (one markdown file per issue) and its roadmap     *)
(* ordering engine (fractional order keys).                                *)
(*                                                                         *)
(* Strings are modelled as sequences.  An order key is a sequence of       *)
(* base-62 digit indices ('0'..'9' = 0..9, 'A'..'Z' = 10..35,              *)
(* 'a'..'z' = 36..61), so that the index order is the character order JS   *)
(* string comparison uses.  An issue id argument is a sequence of decimal  *)
(* digits.                                                                 *)
(***************************************************************************)
EXTENDS Integers, Sequences, FiniteSets, TLC

\* ---------------------------------------------------------------------
\* Bounds of the model
\* ---------------------------------------------------------------------

\* createIssue is not called once this issue number has been handed out
MaxIssueNumber == 4

\* number of store operations in one behaviour
MaxOps == 4

\* ---------------------------------------------------------------------
\* Strings
\* ---------------------------------------------------------------------

\* JS `a < b` on strings: lexicographic on code units, a proper prefix first
RECURSIVE StrLess(_, _)
StrLess(a, b) ==
    IF b = <<>> THEN FALSE
    ELSE IF a = <<>> THEN TRUE
    ELSE IF a[1] # b[1] THEN a[1] < b[1]
    ELSE StrLess(Tail(a), Tail(b))

\* String.prototype.padStart(n, '0') on a digit string
RECURSIVE padStart(_, _)
padStart(s, n) == IF Len(s) >= n THEN s ELSE padStart(<<0>> \o s, n)

\* String(n) for a natural number n
RECURSIVE NumStr(_)
NumStr(n) == IF n < 10 THEN <<n>> ELSE NumStr(n \div 10) \o <<n % 10>>

\* parseInt(s, 10) on a digit string
RECURSIVE parseInt(_)
parseInt(s) ==
    IF s = <<>> THEN 0 ELSE 10 * parseInt(SubSeq(s, 1, Len(s) - 1)) + s[Len(s)]

\* ---------------------------------------------------------------------
\* The fractional-indexing package (generateKeyBetween)
\* ---------------------------------------------------------------------

\* BASE_62_DIGITS.length
Base == 62

\* digit indices of the characters the package tests for
DigA == 10
DigZ == 35
Diga == 36
Digz == 61

\* null / undefined argument
Null == <<-1>>

\* a helper threw
Throw == <<-2>>

\* concatenation that lets a thrown error through
Cat(x, y) == IF x = Throw \/ y = Throw THEN Throw ELSE x \o y

LastOf(s) == IF s = <<>> THEN -1 ELSE s[Len(s)]

\* a.slice(1)
Slice1(a) == IF a = <<>> THEN <<>> ELSE Tail(a)

\* a[n] || zero
DigitOr0(a, n) == IF n <= Len(a) THEN a[n] ELSE 0

\* length of the longest prefix of b that equals a padded with zeros
RECURSIVE CommonPrefix(_, _, _)
CommonPrefix(a, b, n) ==
    IF n + 1 <= Len(b) /\ DigitOr0(a, n + 1) = b[n + 1]
    THEN CommonPrefix(a, b, n + 1)
    ELSE n

\* midpoint(a, b, digits): a is a string (may be empty), b a string or null
RECURSIVE midpoint(_, _)
midpoint(a, b) ==
    IF b # Null /\ ~StrLess(a, b) THEN Throw
    ELSE IF LastOf(a) = 0 \/ (b # Null /\ LastOf(b) = 0) THEN Throw
    ELSE LET n == IF b # Null /\ b # <<>> THEN CommonPrefix(a, b, 0) ELSE 0
         IN IF n > 0
            THEN Cat(SubSeq(b, 1, n),
                     midpoint(SubSeq(a, n + 1, Len(a)), SubSeq(b, n + 1, Len(b))))
            ELSE LET digitA == IF a # <<>> THEN a[1] ELSE 0
                     digitB == IF b # Null THEN b[1] ELSE Base
                 IN IF digitB - digitA > 1
                    THEN << (digitA + digitB + 1) \div 2 >>
                    ELSE IF b # Null /\ Len(b) > 1
                         THEN <<b[1]>>
                         ELSE Cat(<<digitA>>, midpoint(Slice1(a), Null))

\* getIntegerLength(head); 0 stands for the "invalid order key head" error
getIntegerLength(head) ==
    IF head >= Diga /\ head <= Digz THEN head - Diga + 2
    ELSE IF head >= DigA /\ head <= DigZ THEN DigZ - head + 2
    ELSE 0

\* getIntegerPart(key)
getIntegerPart(key) ==
    IF key = <<>> THEN Throw
    ELSE LET l == getIntegerLength(key[1])
         IN IF l = 0 \/ l > Len(key) THEN Throw ELSE SubSeq(key, 1, l)

\* "A" followed by 26 zeros, the smallest integer part
SmallestInteger == <<DigA>> \o [i \in 1..26 |-> 0]

\* validateOrderKey(key): TRUE when it does not throw
validateOrderKey(key) ==
    /\ key # SmallestInteger
    /\ getIntegerPart(key) # Throw
    /\ LET i == getIntegerPart(key)
       IN LastOf(SubSeq(key, Len(i) + 1, Len(key))) # 0

\* the digits of an integer part after adding one: <<carry, digits>>
RECURSIVE IncDigits(_)
IncDigits(digs) ==
    IF digs = <<>> THEN <<TRUE, <<>>>>
    ELSE LET n == Len(digs)
             d == digs[n] + 1
         IN IF d = Base
            THEN LET r == IncDigits(SubSeq(digs, 1, n - 1))
                 IN <<r[1], r[2] \o <<0>>>>
            ELSE <<FALSE, SubSeq(digs, 1, n - 1) \o <<d>>>>

\* incrementInteger(x): the next integer part, or Null
incrementInteger(x) ==
    LET head == x[1]
        r == IncDigits(Tail(x))
        digs == r[2]
    IN IF r[1]
       THEN IF head = DigZ THEN <<Diga, 0>>
            ELSE IF head = Digz THEN Null
            ELSE LET h == head + 1
                 IN IF h > Diga
                    THEN <<h>> \o digs \o <<0>>
                    ELSE <<h>> \o SubSeq(digs, 1, Len(digs) - 1)
       ELSE <<head>> \o digs

\* the digits of an integer part after subtracting one: <<borrow, digits>>
RECURSIVE DecDigits(_)
DecDigits(digs) ==
    IF digs = <<>> THEN <<TRUE, <<>>>>
    ELSE LET n == Len(digs)
             d == digs[n] - 1
         IN IF d = -1
            THEN LET r == DecDigits(SubSeq(digs, 1, n - 1))
                 IN <<r[1], r[2] \o <<Base - 1>>>>
            ELSE <<FALSE, SubSeq(digs, 1, n - 1) \o <<d>>>>

\* decrementInteger(x): the previous integer part, or Null
decrementInteger(x) ==
    LET head == x[1]
        r == DecDigits(Tail(x))
        digs == r[2]
    IN IF r[1]
       THEN IF head = Diga THEN <<DigZ, Base - 1>>
            ELSE IF head = DigA THEN Null
            ELSE LET h == head - 1
                 IN IF h < DigZ
                    THEN <<h>> \o digs \o <<Base - 1>>
                    ELSE <<h>> \o SubSeq(digs, 1, Len(digs) - 1)
       ELSE <<head>> \o digs

\* generateKeyBetween(a, b): a key strictly between a and b (Null = no
\* bound on that side), or Throw
generateKeyBetween(a, b) ==
    IF a # Null /\ ~validateOrderKey(a) THEN Throw
    ELSE IF b # Null /\ ~validateOrderKey(b) THEN Throw
    ELSE IF a # Null /\ b # Null /\ ~StrLess(a, b) THEN Throw
    ELSE IF a = Null
    THEN IF b = Null THEN <<Diga, 0>>
         ELSE LET ib == getIntegerPart(b)
                  fb == SubSeq(b, Len(ib) + 1, Len(b))
              IN IF ib = SmallestInteger THEN Cat(ib, midpoint(<<>>, fb))
                 ELSE IF StrLess(ib, b) THEN ib
                 ELSE LET res == decrementInteger(ib)
                      IN IF res = Null THEN Throw ELSE res
    ELSE IF b = Null
    THEN LET ia == getIntegerPart(a)
             fa == SubSeq(a, Len(ia) + 1, Len(a))
             i == incrementInteger(ia)
         IN IF i = Null THEN Cat(ia, midpoint(fa, Null)) ELSE i
    ELSE LET ia == getIntegerPart(a)
             fa == SubSeq(a, Len(ia) + 1, Len(a))
             ib == getIntegerPart(b)
             fb == SubSeq(b, Len(ib) + 1, Len(b))
         IN IF ia = ib THEN Cat(ia, midpoint(fa, fb))
            ELSE LET i == incrementInteger(ia)
                 IN IF i = Null THEN Throw
                    ELSE IF StrLess(i, b) THEN i
                    ELSE Cat(ia, midpoint(fa, Null))

\* ---------------------------------------------------------------------
\* Issue files
\* ---------------------------------------------------------------------

\* the titles createIssue is called with (strings as sequences of characters)
Titles == { <<"F", "i", "x", " ", "i", "t", "!">> }

\* the titles of the calls that set no order
AllTitles == Titles \cup { <<"f", "i", "t">> }

\* toLowerCase on the characters that occur in the titles
toLowerCase(c) == IF c = "F" THEN "f" ELSE c

\* [a-z0-9\s-] after toLowerCase
SlugChar(c) == c \in {"f", "i", "x", "t", " ", "-"}

\* .replace(/[^a-z0-9\s-]/g, '')
RECURSIVE StripNonSlug(_)
StripNonSlug(t) ==
    IF t = <<>> THEN <<>>
    ELSE (IF SlugChar(t[1]) THEN <<t[1]>> ELSE <<>>) \o StripNonSlug(Tail(t))

\* .replace(/\s+/g, '-').replace(/-+/g, '-'): every run of spaces becomes a
\* hyphen, then every run of hyphens becomes one hyphen
RECURSIVE Hyphenate(_)
Hyphenate(t) ==
    IF t = <<>> THEN <<>>
    ELSE LET c == IF t[1] = " " THEN "-" ELSE t[1]
             r == Hyphenate(Tail(t))
         IN IF c = "-" /\ r # <<>> /\ r[1] = "-" THEN r ELSE <<c>> \o r

\* slug length limit in createSlug
SlugMax == 50

\* createSlug(title)
createSlug(title) ==
    LET lower == [i \in 1..Len(title) |-> toLowerCase(title[i])]
        slug == Hyphenate(StripNonSlug(lower))
    IN SubSeq(slug, 1, IF Len(slug) < SlugMax THEN Len(slug) ELSE SlugMax)

\* width of the issue number in a filename: padStart(4, '0') and /^\d{4}-/
IdWidth == 4

\* `${issueNumber}-${slug}.md`: a filename is its number and its slug
Filename(id, slug) == [id |-> id, slug |-> slug]

\* getIssueIdFromFilename(filename): the digits before the first hyphen
getIssueIdFromFilename(f) == f.id

\* an absent (undefined or empty) frontmatter value
None == ""

\* an absent order key (undefined and '' are both falsy)
NoOrder == <<>>

\* formatDate(): the time of the call, not modelled further
Now == "now"

VARIABLES
    files,    \* the issues directory: filename -> frontmatter of the file
    call,     \* the last computeOrderKey call, until a store call uses its key
    last,     \* the last store call: what it returned or threw
    issued,   \* history: every id a createIssue has returned
    plain,    \* history: the roadmap as a plain list of ids
    hist,     \* history: which kinds of call have happened so far
    run,      \* history: the current run of insertions after one target
    ops       \* number of calls so far

vars == <<files, call, last, issued, plain, hist, run, ops>>

\* getIssueFiles() without the order of the listing: the files readdir
\* returns whose name matches /^\d{4}-/
getIssueFiles == { f \in DOMAIN files : Len(f.id) = IdWidth }

\* the largest element of a non-empty set of numbers, with 0 (Math.max(..., 0))
Max0(S) == IF S = {} THEN 0 ELSE CHOOSE m \in S : \A n \in S : n <= m

\* getNextIssueNumber()
getNextIssueNumber_byCount ==
    padStart(NumStr(Cardinality(getIssueFiles) + 1), IdWidth)

getNextIssueNumber ==
    IF getIssueFiles = {} THEN <<0, 0, 0, 1>>
    ELSE LET numbers == { parseInt(getIssueIdFromFilename(f)) : f \in getIssueFiles }
         IN padStart(NumStr(Max0(numbers) + 1), IdWidth)

\* f.startsWith(paddedId) for a string of digits: the character after the
\* number of a filename is a hyphen
StartsWith(f, paddedId) ==
    /\ Len(paddedId) <= Len(f.id)
    /\ SubSeq(f.id, 1, Len(paddedId)) = paddedId

\* the files getIssue(id) can find: files.find returns the first match of
\* the directory listing, whose order is the file system's
IssueMatches(id) ==
    LET paddedId == padStart(id, IdWidth)
    IN { f \in getIssueFiles :
           StartsWith(f, paddedId) \/ getIssueIdFromFilename(f) = paddedId }

\* the Issue record read from a file
IssueOf(f) == [id |-> getIssueIdFromFilename(f), filename |-> f, frontmatter |-> files[f]]

\* getIssue(id) when readdir returns the listing dir: the record of the first
\* file of the listing that matches; <<>> stands for null
getIssue_unpadded(dir, id) ==
    LET Matches(f) == StartsWith(f, id) \/ getIssueIdFromFilename(f) = id
        found == SelectSeq(dir, Matches)
    IN IF found = <<>> THEN <<>> ELSE <<IssueOf(found[1])>>

getIssue(dir, id) ==
    LET paddedId == padStart(id, IdWidth)
        Matches(f) == StartsWith(f, paddedId) \/ getIssueIdFromFilename(f) = paddedId
        found == SelectSeq(dir, Matches)
    IN IF found = <<>> THEN <<>> ELSE <<IssueOf(found[1])>>

\* the comparator of getAllIssues: -1, 0 or 1
CompareIssues(a, b) ==
    LET orderA == a.frontmatter.order
        orderB == b.frontmatter.order
    IN IF orderA # NoOrder /\ orderB # NoOrder
       THEN IF StrLess(orderA, orderB) THEN -1
            ELSE IF StrLess(orderB, orderA) THEN 1 ELSE 0
       ELSE IF orderA # NoOrder /\ orderB = NoOrder THEN -1
       ELSE IF orderA = NoOrder /\ orderB # NoOrder THEN 1
       ELSE IF StrLess(a.id, b.id) THEN -1
       ELSE IF StrLess(b.id, a.id) THEN 1 ELSE 0

\* Array.prototype.sort (stable) of the sequence s under CompareIssues
SortIssues(s) ==
    LET Before(i, j) == \/ CompareIssues(s[i], s[j]) < 0
                        \/ CompareIssues(s[i], s[j]) = 0 /\ i < j
        rank(i) == Cardinality({ j \in 1..Len(s) : Before(j, i) })
    IN [r \in 1..Len(s) |-> s[CHOOSE i \in 1..Len(s) : rank(i) = r - 1]]

\* the listings readdir can return: the files in any order
RECURSIVE Listings(_)
Listings(S) ==
    IF S = {} THEN { <<>> }
    ELSE UNION { { <<f>> \o l : l \in Listings(S \ {f}) } : f \in S }

\* getAllIssues() when readdir returns the listing dir
getAllIssues(dir) == SortIssues([i \in 1..Len(dir) |-> IssueOf(dir[i])])

\* getOpenIssuesByOrder() when readdir returns the listing dir
getOpenIssuesByOrder(dir) ==
    LET IsOpen(i) == i.frontmatter.status = "open"
    IN SelectSeq(getAllIssues(dir), IsOpen)

\* getNextIssue() when readdir returns the listing dir; <<>> stands for null
getNextIssue(dir) ==
    LET openIssues == getOpenIssuesByOrder(dir)
    IN IF Len(openIssues) > 0 THEN <<openIssues[1]>> ELSE <<>>

\* ---------------------------------------------------------------------
\* Roadmap ordering
\* ---------------------------------------------------------------------

\* frontmatter.order || null
OrNull(order) == IF order = NoOrder THEN Null ELSE order

\* what a computeOrderKey call produced: a key, or the error it threw
KeyResult(k) ==
    IF k = Throw
    THEN [kind |-> "KeyError", key |-> NoOrder, target |-> <<>>]
    ELSE [kind |-> "ok", key |-> k, target |-> <<>>]

\* the "Issue #T not found among open issues" error
NotFound(target) == [kind |-> "NotFound", key |-> NoOrder, target |-> target]

\* issues.findIndex(i => i.id === targetId), 1-based; 0 stands for -1
findIndex(issues, targetId) ==
    LET hits == { i \in 1..Len(issues) : issues[i].id = targetId }
    IN IF hits = {} THEN 0 ELSE CHOOSE i \in hits : \A j \in hits : i <= j

\* the options of a position request
Options(first, lst, after, before) ==
    [first |-> first, last |-> lst, after |-> after, before |-> before]

\* openIssues without the excluded issue; an absent excludeId is the empty
\* string
Candidates_keepExcluded(openIssues, excludeId) == openIssues

Candidates(openIssues, excludeId) ==
    LET Kept(i) == i.id # padStart(excludeId, IdWidth)
    IN IF excludeId # <<>> THEN SelectSeq(openIssues, Kept) ELSE openIssues

\* options.first
keyFirst(issues) ==
    IF Len(issues) = 0 THEN KeyResult(generateKeyBetween(Null, Null))
    ELSE KeyResult(generateKeyBetween(Null, OrNull(issues[1].frontmatter.order)))

\* options.last
keyLast_fromFirst(issues) ==
    IF Len(issues) = 0 THEN KeyResult(generateKeyBetween(Null, Null))
    ELSE KeyResult(generateKeyBetween(OrNull(issues[1].frontmatter.order), Null))

keyLast(issues) ==
    IF Len(issues) = 0 THEN KeyResult(generateKeyBetween(Null, Null))
    ELSE KeyResult(generateKeyBetween(OrNull(issues[Len(issues)].frontmatter.order), Null))

\* options.after
keyAfter_noUpperBound(issues, after) ==
    LET idx == findIndex(issues, padStart(after, IdWidth))
    IN IF idx = 0 THEN NotFound(after)
       ELSE KeyResult(generateKeyBetween(OrNull(issues[idx].frontmatter.order), Null))

keyAfter_appends(issues, after) ==
    LET idx == findIndex(issues, padStart(after, IdWidth))
    IN IF idx = 0 THEN NotFound(after)
       ELSE KeyResult(generateKeyBetween(
                OrNull(issues[Len(issues)].frontmatter.order), Null))

keyAfter(issues, after) ==
    LET idx == findIndex(issues, padStart(after, IdWidth))
    IN IF idx = 0 THEN NotFound(after)
       ELSE LET afterOrder == OrNull(issues[idx].frontmatter.order)
                nextOrder == IF idx + 1 <= Len(issues)
                             THEN OrNull(issues[idx + 1].frontmatter.order)
                             ELSE Null
            IN KeyResult(generateKeyBetween(afterOrder, nextOrder))

\* options.before
keyBefore_noLowerBound(issues, before) ==
    LET idx == findIndex(issues, padStart(before, IdWidth))
    IN IF idx = 0 THEN NotFound(before)
       ELSE KeyResult(generateKeyBetween(Null, OrNull(issues[idx].frontmatter.order)))

keyBefore(issues, before) ==
    LET idx == findIndex(issues, padStart(before, IdWidth))
    IN IF idx = 0 THEN NotFound(before)
       ELSE LET beforeOrder == OrNull(issues[idx].frontmatter.order)
                prevOrder == IF idx > 1
                             THEN OrNull(issues[idx - 1].frontmatter.order)
                             ELSE Null
            IN KeyResult(generateKeyBetween(prevOrder, beforeOrder))

\* no position: append at the end
keyDefault(issues) ==
    IF Len(issues) = 0 THEN KeyResult(generateKeyBetween(Null, Null))
    ELSE KeyResult(generateKeyBetween(OrNull(issues[Len(issues)].frontmatter.order), Null))

\* computeOrderKey(openIssues, options, excludeId); an absent after or
\* before is the empty string
computeOrderKey(openIssues, options, excludeId) ==
    LET issues == Candidates(openIssues, excludeId)
    IN IF options.first THEN keyFirst(issues)
       ELSE IF options.last THEN keyLast(issues)
       ELSE IF options.after # <<>> THEN keyAfter(issues, options.after)
       ELSE IF options.before # <<>> THEN keyBefore(issues, options.before)
       ELSE keyDefault(issues)

\* ---------------------------------------------------------------------
\* CRUD
\* ---------------------------------------------------------------------

\* an absent labels field of an update (undefined, as opposed to '')
Undefined == "undefined"

\* CreateIssueInput; absent fields are empty
CreateInput(title, order) ==
    [title |-> title, priority |-> None, scope |-> None, type |-> None,
     labels |-> None, order |-> order]

\* UpdateIssueInput; absent fields are empty, absent labels are Undefined
UpdateInput(title, status, order) ==
    [title |-> title, priority |-> None, scope |-> None, type |-> None,
     labels |-> Undefined, status |-> status, order |-> order]

\* the error createIssue throws for an input, or None
createError_scopeUnchecked(input) ==
    LET priority == IF input.priority # None THEN input.priority ELSE "medium"
        type == IF input.type # None THEN input.type ELSE "improvement"
    IN IF input.title = <<>> THEN "Title is required"
       ELSE IF priority \notin {"high", "medium", "low"}
       THEN "Priority must be: high, medium, or low"
       ELSE IF type \notin {"bug", "improvement"}
       THEN "Type must be: bug or improvement"
       ELSE None

createError(input) ==
    LET priority == IF input.priority # None THEN input.priority ELSE "medium"
        type == IF input.type # None THEN input.type ELSE "improvement"
    IN IF input.title = <<>> THEN "Title is required"
       ELSE IF priority \notin {"high", "medium", "low"}
       THEN "Priority must be: high, medium, or low"
       ELSE IF input.scope # None /\ input.scope \notin {"small", "medium", "large"}
       THEN "Scope must be: small, medium, or large"
       ELSE IF type \notin {"bug", "improvement"}
       THEN "Type must be: bug or improvement"
       ELSE None

\* the frontmatter createIssue writes
createFrontmatter(input) ==
    [title |-> input.title,
     priority |-> IF input.priority # None THEN input.priority ELSE "medium",
     scope |-> input.scope,
     type |-> IF input.type # None THEN input.type ELSE "improvement",
     labels |-> input.labels,
     status |-> "open",
     order |-> input.order,
     created |-> Now,
     updated |-> None]

\* the frontmatter updateIssue writes over the frontmatter fm it read
updateFrontmatter_orderUnguarded(fm, input) ==
    [title |-> IF input.title # <<>> THEN input.title ELSE fm.title,
     priority |-> IF input.priority # None THEN input.priority ELSE fm.priority,
     scope |-> IF input.scope # None THEN input.scope ELSE fm.scope,
     type |-> IF input.type # None THEN input.type ELSE fm.type,
     labels |-> IF input.labels # Undefined THEN input.labels ELSE fm.labels,
     status |-> IF input.status # None THEN input.status ELSE fm.status,
     order |-> input.order,
     created |-> fm.created,
     updated |-> Now]

updateFrontmatter(fm, input) ==
    [title |-> IF input.title # <<>> THEN input.title ELSE fm.title,
     priority |-> IF input.priority # None THEN input.priority ELSE fm.priority,
     scope |-> IF input.scope # None THEN input.scope ELSE fm.scope,
     type |-> IF input.type # None THEN input.type ELSE fm.type,
     labels |-> IF input.labels # Undefined THEN input.labels ELSE fm.labels,
     status |-> IF input.status # None THEN input.status ELSE fm.status,
     order |-> IF input.order # NoOrder THEN input.order ELSE fm.order,
     created |-> fm.created,
     updated |-> Now]

\* writeFile(join(getIssuesDir(), filename), content)
writeFile_renumbers(f, fm) ==
    [g \in DOMAIN files \cup {f} |->
       IF g = f THEN fm
       ELSE IF fm.order # NoOrder /\ files[g].order # NoOrder
                 /\ ~StrLess(files[g].order, fm.order)
       THEN [files[g] EXCEPT !.order = generateKeyBetween(@, Null)]
       ELSE files[g]]

writeFile(f, fm) == [g \in DOMAIN files \cup {f} |-> IF g = f THEN fm ELSE files[g]]

\* unlink(join(getIssuesDir(), filename))
unlink_lowest(f) ==
    LET lowest == CHOOSE g \in DOMAIN files :
                     \A h \in DOMAIN files : parseInt(g.id) <= parseInt(h.id)
    IN [g \in DOMAIN files \ {lowest} |-> files[g]]

unlink(f) == [g \in DOMAIN files \ {f} |-> files[g]]

\* the lists getOpenIssuesByOrder() can return in the current state
OpenLists == { getOpenIssuesByOrder(dir) : dir \in Listings(getIssueFiles) }

\* the id arguments of the calls
IdArgs == { NumStr(n) : n \in 1..MaxIssueNumber }

\* the position requests of the calls
PositionRequests ==
    { Options(FALSE, FALSE, <<>>, <<>>),
      Options(TRUE, FALSE, <<>>, <<>>),
      Options(FALSE, TRUE, <<>>, <<>>) }
    \cup { Options(FALSE, FALSE, t, <<>>) : t \in IdArgs }
    \cup { Options(FALSE, FALSE, <<>>, t) : t \in IdArgs }

NoOptions == Options(FALSE, FALSE, <<>>, <<>>)

\* the record of a computeOrderKey call: its arguments and its result
KeyCall(list, options, excludeId, result) ==
    [list |-> list, options |-> options, excludeId |-> excludeId, result |-> result]

\* no computeOrderKey call has been made since the last store call
NoKeyCall ==
    KeyCall(<<>>, NoOptions, <<>>, [kind |-> "none", key |-> NoOrder, target |-> <<>>])

\* the record of a store call: the function, its id argument, the
\* frontmatter it read from the issue's file (getIssue), the id of the issue
\* it returned and the error it threw
Call(op, id, read, ret, error) ==
    [op |-> op, id |-> id, read |-> read, ret |-> ret, error |-> error]

\* ---------------------------------------------------------------------
\* History
\* ---------------------------------------------------------------------

\* the kinds of history: "inserts" - only issues created at a first, last,
\* after or before position; "keyed" - also repositioning, closing,
\* reopening and deleting, every order a computed key; "any" - anything
HistRank(h) == IF h = "inserts" THEN 0 ELSE IF h = "keyed" THEN 1 ELSE 2

\* the history after a call of kind h
Demote(h) == IF HistRank(h) > HistRank(hist) THEN h ELSE hist

\* exactly one of first, last, after, before is requested
IsPosition(options) ==
    options.first \/ options.last \/ options.after # <<>> \/ options.before # <<>>

\* position of id in the plain list, 0 when absent
PlainIndex(pl, id) ==
    LET hits == { i \in 1..Len(pl) : pl[i] = id }
    IN IF hits = {} THEN 0 ELSE CHOOSE i \in hits : TRUE

\* the plain list after inserting id at the requested position
PlainInsert(pl, options, id) ==
    IF options.first THEN <<id>> \o pl
    ELSE IF options.last THEN pl \o <<id>>
    ELSE IF options.after # <<>>
    THEN LET i == PlainIndex(pl, padStart(options.after, IdWidth))
         IN IF i = 0 THEN pl
            ELSE SubSeq(pl, 1, i) \o <<id>> \o SubSeq(pl, i + 1, Len(pl))
    ELSE IF options.before # <<>>
    THEN LET i == PlainIndex(pl, padStart(options.before, IdWidth))
         IN IF i = 0 THEN pl
            ELSE SubSeq(pl, 1, i - 1) \o <<id>> \o SubSeq(pl, i, Len(pl))
    ELSE pl

\* no run of insertions after one target is going on
NoRun == [target |-> <<>>, base |-> NoOrder, succ |-> Null, keys |-> <<>>]

\* the run after an insertion with key k, requested as options on list
RunAfter(options, list, k) ==
    IF options.after = <<>> \/ options.first \/ options.last THEN NoRun
    ELSE LET t == padStart(options.after, IdWidth)
             idx == findIndex(list, t)
         IN IF idx = 0 \/ list[idx].frontmatter.order = NoOrder THEN NoRun
            ELSE IF run.target = t THEN [run EXCEPT !.keys = Append(@, k)]
            ELSE [target |-> t,
                  base |-> list[idx].frontmatter.order,
                  succ |-> IF idx + 1 <= Len(list)
                           THEN OrNull(list[idx + 1].frontmatter.order)
                           ELSE Null,
                  keys |-> <<k>>]

\* ---------------------------------------------------------------------
\* The calls
\* ---------------------------------------------------------------------

Init ==
    /\ files = << >>
    /\ call = NoKeyCall
    /\ last = Call("init", <<>>, <<>>, <<>>, None)
    /\ issued = {}
    /\ plain = <<>>
    /\ hist = "inserts"
    /\ run = NoRun
    /\ ops = 0

\* a key has been computed and no store call has used it yet
HasKey == call.result.kind = "ok"

\* createIssue can still hand out a number within the bound
CanCreate ==
    /\ ops < MaxOps
    /\ parseInt(getNextIssueNumber) <= MaxIssueNumber

\* computeOrderKey(await getOpenIssuesByOrder(), options, excludeId)
ComputeOrderKey ==
    /\ ~HasKey
    /\ ops < MaxOps
    /\ \E list \in OpenLists :
         \E options \in PositionRequests, excludeId \in {<<>>} \cup IdArgs :
           call' = KeyCall(list, options, excludeId,
                           computeOrderKey(list, options, excludeId))
    /\ UNCHANGED <<files, last, issued, plain, hist, run, ops>>

\* createIssue(input)
createIssue(input) ==
    LET error == createError(input)
        issueNumber == getNextIssueNumber
        filename == Filename(issueNumber, createSlug(input.title))
    IN IF error # None
       THEN /\ last' = Call("createIssue", <<>>, <<>>, <<>>, error)
            /\ UNCHANGED <<files, issued>>
       ELSE /\ files' = writeFile(filename, createFrontmatter(input))
            /\ last' = Call("createIssue", <<>>, <<>>, issueNumber, None)
            /\ issued' = issued \cup {issueNumber}

\* updateIssue(id, input), called as op
updateIssue_renames(op, id, input) ==
    IF IssueMatches(id) = {}
    THEN /\ last' = Call(op, id, <<>>, <<>>, "Issue not found")
         /\ UNCHANGED files
    ELSE \E f \in IssueMatches(id) :
           LET fm == updateFrontmatter(files[f], input)
               g == Filename(f.id, createSlug(fm.title))
           IN /\ files' = [h \in (DOMAIN files \ {f}) \cup {g} |->
                             IF h = g THEN fm ELSE files[h]]
              /\ last' = Call(op, id, files[f], getIssueIdFromFilename(f), None)

updateIssue(op, id, input) ==
    IF IssueMatches(id) = {}
    THEN /\ last' = Call(op, id, <<>>, <<>>, "Issue not found")
         /\ UNCHANGED files
    ELSE \E f \in IssueMatches(id) :
           /\ files' = writeFile(f, updateFrontmatter(files[f], input))
           /\ last' = Call(op, id, files[f], getIssueIdFromFilename(f), None)

\* createIssue({title, order}) with the key just computed
CreateAt(title) ==
    /\ HasKey
    /\ call.excludeId = <<>>
    /\ CanCreate
    /\ createIssue(CreateInput(title, call.result.key))
    /\ run' = RunAfter(call.options, call.list, call.result.key)
    /\ hist' = IF IsPosition(call.options) THEN hist ELSE Demote("keyed")
    /\ plain' = IF hist' = "inserts"
                THEN PlainInsert(plain, call.options, getNextIssueNumber)
                ELSE <<>>
    /\ call' = NoKeyCall
    /\ ops' = ops + 1

\* createIssue({title}) without an order
CreateUnordered(title) ==
    /\ ~HasKey
    /\ CanCreate
    /\ createIssue(CreateInput(title, NoOrder))
    /\ hist' = "any"
    /\ plain' = <<>>
    /\ run' = NoRun
    /\ call' = NoKeyCall
    /\ ops' = ops + 1

\* updateIssue(id, {order}) with the key just computed
Reposition(id) ==
    /\ HasKey
    /\ IsPosition(call.options)
    /\ call.excludeId \in {<<>>, id}
    /\ ops < MaxOps
    /\ updateIssue("updateIssue", id, UpdateInput(<<>>, None, call.result.key))
    /\ hist' = Demote("keyed")
    /\ plain' = <<>>
    /\ run' = NoRun
    /\ call' = NoKeyCall
    /\ ops' = ops + 1
    /\ UNCHANGED issued

\* reopenIssue(id, order) with the key just computed
ReopenAt(id) ==
    /\ HasKey
    /\ call.excludeId = id
    /\ ops < MaxOps
    /\ updateIssue("reopenIssue", id, UpdateInput(<<>>, "open", call.result.key))
    /\ hist' = Demote("keyed")
    /\ plain' = <<>>
    /\ run' = NoRun
    /\ call' = NoKeyCall
    /\ ops' = ops + 1
    /\ UNCHANGED issued

\* reopenIssue(id)
Reopen(id) ==
    /\ ~HasKey
    /\ ops < MaxOps
    /\ updateIssue("reopenIssue", id, UpdateInput(<<>>, "open", NoOrder))
    /\ hist' = Demote("keyed")
    /\ plain' = <<>>
    /\ run' = NoRun
    /\ call' = NoKeyCall
    /\ ops' = ops + 1
    /\ UNCHANGED issued

\* closeIssue(id)
Close(id) ==
    /\ ~HasKey
    /\ ops < MaxOps
    /\ updateIssue("closeIssue", id, UpdateInput(<<>>, "closed", NoOrder))
    /\ hist' = Demote("keyed")
    /\ plain' = <<>>
    /\ run' = NoRun
    /\ call' = NoKeyCall
    /\ ops' = ops + 1
    /\ UNCHANGED issued

\* deleteIssue(id)
Delete(id) ==
    /\ ~HasKey
    /\ ops < MaxOps
    /\ IF IssueMatches(id) = {}
       THEN /\ last' = Call("deleteIssue", id, <<>>, <<>>, "Issue not found")
            /\ UNCHANGED files
       ELSE \E f \in IssueMatches(id) :
              /\ files' = unlink(f)
              /\ last' = Call("deleteIssue", id, files[f], getIssueIdFromFilename(f), None)
    /\ hist' = Demote("keyed")
    /\ plain' = <<>>
    /\ run' = NoRun
    /\ call' = NoKeyCall
    /\ ops' = ops + 1
    /\ UNCHANGED issued

\* updateIssue(id, {title})
Retitle(id, title) ==
    /\ ~HasKey
    /\ ops < MaxOps
    /\ updateIssue("updateIssue", id, UpdateInput(title, None, NoOrder))
    /\ hist' = "any"
    /\ plain' = <<>>
    /\ run' = NoRun
    /\ call' = NoKeyCall
    /\ ops' = ops + 1
    /\ UNCHANGED issued

Next ==
    \/ ComputeOrderKey
    \/ \E title \in Titles : CreateAt(title)
    \/ \E title \in Titles : CreateUnordered(title)
    \/ \E id \in IdArgs : Reposition(id)
    \/ \E id \in IdArgs : ReopenAt(id)
    \/ \E id \in IdArgs : Reopen(id)
    \/ \E id \in IdArgs : Close(id)
    \/ \E id \in IdArgs : Delete(id)

Spec == Init /\ [][Next]_vars

\* the store calls that compute no order key, with titles of different slugs
NextFiles ==
    \/ \E title \in AllTitles : CreateUnordered(title)
    \/ \E id \in IdArgs, title \in AllTitles : Retitle(id, title)
    \/ \E id \in IdArgs : Reopen(id)
    \/ \E id \in IdArgs : Close(id)
    \/ \E id \in IdArgs : Delete(id)

SpecFiles == Init /\ [][NextFiles]_vars

\* ---------------------------------------------------------------------
\* Properties
\* ---------------------------------------------------------------------

\* the files that hold an order
Ordered == { f \in DOMAIN files : files[f].order # NoOrder }

\* the files of the open issues
OpenFiles == { f \in DOMAIN files : files[f].status = "open" }

\* a store call has just returned without an error
Returned(op) == last.op = op /\ last.error = None

\* C1: while every order handed to createIssue, updateIssue and reopenIssue
\* was computed by computeOrderKey for the then-current open list (calls of
\* closeIssue, reopenIssue without an order and deleteIssue in between), any
\* two distinct issues that hold an order, open or closed, hold different
\* orders.
C1_OrdersDistinct ==
    hist # "any" =>
      \A f, g \in Ordered : f # g => files[f].order # files[g].order

\* C2: after insertions only (each issue created with the key computed for a
\* first, last, after or before request), the open issues are those of the
\* plain list and their orders ascend strictly along the plain list.
FileOfId(id) == CHOOSE f \in DOMAIN files : f.id = id

C2_InsertionOrder ==
    hist = "inserts" =>
      /\ { f.id : f \in OpenFiles } = { plain[i] : i \in 1..Len(plain) }
      /\ Cardinality(OpenFiles) = Len(plain)
      /\ \A i, j \in 1..Len(plain) :
           i < j => StrLess(files[FileOfId(plain[i])].order,
                            files[FileOfId(plain[j])].order)
      /\ \A list \in OpenLists : [i \in 1..Len(list) |-> list[i].id] = plain

\* an insertion in the middle and one at the front have happened
C2_Witness ==
    /\ hist = "inserts"
    /\ Len(plain) = 4
    /\ plain[1] # <<0, 0, 0, 1>>
    /\ plain[3] = <<0, 0, 0, 4>>

\* a createIssue call returns an id in this step
CreateStep == ops' = ops + 1 /\ last'.op = "createIssue" /\ last'.error = None

\* C3: an id that a createIssue has returned is never returned by a later
\* createIssue, also after the issue that held it has been deleted.
C3_IdNeverReused == [][CreateStep => last'.ret \notin issued]_vars

\* C4: after any sequence of createIssue, updateIssue, closeIssue,
\* reopenIssue and deleteIssue calls no two issue files carry the same id, and
\* every createIssue returns an id greater than every id present when it was
\* called.
C4_OneFilePerId ==
    [][/\ \A f, g \in DOMAIN files' : f.id = g.id => f = g
       /\ CreateStep =>
            \A f \in DOMAIN files : parseInt(f.id) < parseInt(last'.ret)]_vars

\* an issue was created after a lower-numbered one had been deleted, next to
\* a file with another slug
C4_Witness ==
    /\ Returned("createIssue")
    /\ last.ret = <<0, 0, 0, 3>>
    /\ Cardinality(DOMAIN files) = 2
    /\ \E f, g \in DOMAIN files : f.slug # g.slug

\* a computeOrderKey call has been made and its key is not used yet
CallMade == call.result.kind # "none"

\* the issues of the call's list once excludeId has been removed
Remaining ==
    LET NotExcluded(i) == i.id # padStart(call.excludeId, IdWidth)
    IN IF call.excludeId = <<>> THEN call.list ELSE SelectSeq(call.list, NotExcluded)

\* the order of the i-th remaining issue
OrderAt(i) == Remaining[i].frontmatter.order

\* the call requested {after: T} and nothing else
OnlyAfter ==
    /\ CallMade
    /\ ~call.options.first /\ ~call.options.last
    /\ call.options.after # <<>> /\ call.options.before = <<>>

\* the call requested {before: T} and nothing else
OnlyBefore ==
    /\ CallMade
    /\ ~call.options.first /\ ~call.options.last
    /\ call.options.after = <<>> /\ call.options.before # <<>>

\* the call requested {last: true} or no position
LastOrDefault ==
    /\ CallMade
    /\ ~call.options.first
    /\ call.options.last \/ (call.options.after = <<>> /\ call.options.before = <<>>)

\* the positions of the target T among the remaining issues
TargetAt(T) ==
    { i \in 1..Len(Remaining) : Remaining[i].id = padStart(T, IdWidth) }

C6_KeyAfterLast ==
    LET n == Len(Remaining)
    IN LastOrDefault =>
         IF n = 0
         THEN /\ call.result.kind = "ok"
              /\ call.result.key = generateKeyBetween(Null, Null)
         ELSE OrderAt(n) # NoOrder =>
                /\ call.result.kind = "ok"
                /\ StrLess(OrderAt(n), call.result.key)

\* {last: true} was answered on a list of two or more issues from which the
\* excluded issue had been removed
C6_Witness ==
    /\ LastOrDefault
    /\ call.options.last
    /\ call.result.kind = "ok"
    /\ Len(Remaining) >= 2
    /\ Len(Remaining) < Len(call.list)
    /\ OrderAt(Len(Remaining)) # NoOrder

\* C7: computeOrderKey with {after: T} or {before: T} throws the not-found
\* error naming T, and returns no key, whenever T padded to 4 digits is not
\* the id of an issue of the list once excludeId has been removed.
C7_MissingTargetThrows ==
    LET T == IF OnlyAfter THEN call.options.after ELSE call.options.before
    IN (OnlyAfter \/ OnlyBefore) /\ TargetAt(T) = {} =>
         /\ call.result.kind = "NotFound"
         /\ call.result.target = T
         /\ call.result.key = NoOrder

\* the target of a failed {after: T} call is an open issue of the list: the
\* excluded issue itself
C7_Witness ==
    /\ OnlyAfter
    /\ call.result.kind = "NotFound"
    /\ padStart(call.excludeId, IdWidth) = padStart(call.options.after, IdWidth)
    /\ \E i \in 1..Len(call.list) : call.list[i].id = padStart(call.options.after, IdWidth)

\* C8: the keys of consecutive insertions after one target T that holds a
\* key are each above T's key and below the key of T's original successor,
\* and each is below the key of the insertion before it (so all differ).
C8_RepeatedInsertAfter ==
    run.target # <<>> =>
      /\ \A i \in 1..Len(run.keys) :
           /\ StrLess(run.base, run.keys[i])
           /\ run.succ # Null => StrLess(run.keys[i], run.succ)
      /\ \A i, j \in 1..Len(run.keys) : i < j => StrLess(run.keys[j], run.keys[i])

\* two insertions after the same target, which had a successor
C8_Witness ==
    /\ run.target # <<>>
    /\ Len(run.keys) >= 2
    /\ run.succ # Null

\* a createIssue, updateIssue or reopenIssue call that sets an order returns
\* in this step
OrderStep ==
    /\ ops' = ops + 1
    /\ call.result.kind = "ok"
    /\ last'.op \in {"createIssue", "updateIssue", "reopenIssue"}
    /\ last'.error = None

\* C9: creating an issue at a position, repositioning an issue or reopening
\* one with a new order leaves every other issue's file in place with the
\* order it had.
C9_OtherOrdersUntouched ==
    [][OrderStep =>
         \A f \in DOMAIN files :
            f.id # last'.ret =>
              /\ f \in DOMAIN files'
              /\ files'[f].order = files[f].order]_vars

\* an issue was repositioned among three issues that hold an order
C9_Witness ==
    /\ Returned("updateIssue")
    /\ Cardinality(Ordered) >= 3
    /\ \E f \in Ordered : f.id = last.ret /\ files[f].status = "open"

\* whatever order readdir lists the files in, getOpenIssuesByOrder() holds
\* each open issue once and no other, ascending by order with the issues
\* without an order last, and getNextIssue() returns its first issue, which
\* no open issue precedes, or null when no issue is open
OpenListExact ==
    \A dir \in Listings(getIssueFiles) :
       \A list \in { getOpenIssuesByOrder(dir) }, next \in { getNextIssue(dir) } :
          /\ { list[i].filename : i \in 1..Len(list) } = OpenFiles
          /\ Len(list) = Cardinality(OpenFiles)
          /\ \A i \in 1..Len(list) : list[i].frontmatter = files[list[i].filename]
          /\ \A i, j \in 1..Len(list) :
               i < j =>
                 LET a == list[i].frontmatter.order
                     b == list[j].frontmatter.order
                 IN /\ a = NoOrder => b = NoOrder
                    /\ (a # NoOrder /\ b # NoOrder) => ~StrLess(b, a)
          /\ IF OpenFiles = {} THEN next = <<>>
             ELSE /\ next = <<list[1]>>
                  /\ next[1].frontmatter.status = "open"
                  /\ \A f \in OpenFiles :
                       /\ files[f].order # NoOrder /\ next[1].frontmatter.order # NoOrder
                            => ~StrLess(files[f].order, next[1].frontmatter.order)
                       /\ next[1].frontmatter.order = NoOrder => files[f].order = NoOrder

\* C10: after closeIssue the issue is closed and holds the order it held
\* before, and in every state getOpenIssuesByOrder() and getNextIssue() are
\* as OpenListExact says.
C10_CloseKeepsOrder ==
    /\ Returned("closeIssue") =>
         \E f \in DOMAIN files :
            /\ f.id = last.ret
            /\ files[f].status = "closed"
            /\ files[f].order = last.read.order
    /\ OpenListExact

\* an issue with an order was closed and sorts before the open ones, which
\* getNextIssue() skips it for
C10_Witness ==
    /\ Returned("closeIssue")
    /\ Cardinality(OpenFiles) >= 2
    /\ \E f \in Ordered :
         /\ f.id = last.ret
         /\ files[f].status = "closed"
         /\ \A g \in OpenFiles : g \in Ordered /\ StrLess(files[f].order, files[g].order)

\* ---------------------------------------------------------------------
\* The CLI commands
\* ---------------------------------------------------------------------

\* [opts.before, opts.after, opts.first, opts.last].filter(Boolean).length
FlagCount(options) ==
    (IF options.before # <<>> THEN 1 ELSE 0) + (IF options.after # <<>> THEN 1 ELSE 0)
    + (IF options.first THEN 1 ELSE 0) + (IF options.last THEN 1 ELSE 0)

\* the two errors resolvePosition throws itself: "OnlyOne" - Only one of
\* --before, --after, --first, or --last can be specified; "Required" - A
\* position flag is required when there are open issues
PositionError(kind) == [kind |-> kind, key |-> NoOrder, target |-> <<>>]

\* resolvePosition(opts) when getOpenIssuesByOrder() returns openIssues
resolvePosition_unchecked(openIssues, options, requireIfOpenIssues, excludeId) ==
    computeOrderKey(openIssues, options, excludeId)

resolvePosition(openIssues, options, requireIfOpenIssues, excludeId) ==
    LET relevantIssues == Candidates(openIssues, excludeId)
        positionFlags == FlagCount(options)
        hasPosition == IsPosition(options)
    IN IF positionFlags > 1 THEN PositionError("OnlyOne")
       ELSE IF Len(relevantIssues) > 0 /\ requireIfOpenIssues /\ ~hasPosition
       THEN PositionError("Required")
       ELSE computeOrderKey(openIssues, options, excludeId)

\* the flags the commands are run with: none, one, or more than one
CommandFlags ==
    PositionRequests
    \cup { Options(TRUE, TRUE, <<>>, <<>>),
           Options(TRUE, FALSE, <<1>>, <<>>),
           Options(FALSE, FALSE, <<1>>, <<2>>) }

\* what every command leaves of the histories
CommandHistory ==
    /\ hist' = Demote("keyed")
    /\ plain' = <<>>
    /\ run' = NoRun
    /\ ops' = ops + 1

\* a command that ends in its catch block: console.error, process.exit(1)
CommandFailed(command, id, message) ==
    /\ last' = Call(command, id, <<>>, <<>>, message)
    /\ UNCHANGED <<files, issued>>

\* issy create --title ... [--before|--after|--first|--last]
createIssueCommand(title, options) ==
    /\ CanCreate
    /\ \E list \in OpenLists :
         LET order == resolvePosition(list, options, TRUE, <<>>)
         IN /\ call' = KeyCall(list, options, <<>>, order)
            /\ IF order.kind # "ok"
               THEN CommandFailed("createIssueCommand", <<>>, order.kind)
               ELSE createIssue(CreateInput(title, order.key))
    /\ CommandHistory

\* issy update <id> [--before|--after|--first|--last]
updateIssueCommand(id, options) ==
    /\ ops < MaxOps
    /\ IF IsPosition(options)
       THEN \E list \in OpenLists :
              LET order == resolvePosition(list, options, FALSE, id)
              IN /\ call' = KeyCall(list, options, id, order)
                 /\ IF order.kind # "ok"
                    THEN CommandFailed("updateIssueCommand", id, order.kind)
                    ELSE /\ updateIssue("updateIssue", id,
                                        UpdateInput(<<>>, None, order.key))
                         /\ UNCHANGED issued
       ELSE /\ call' = NoKeyCall
            /\ updateIssue("updateIssue", id, UpdateInput(<<>>, None, NoOrder))
            /\ UNCHANGED issued
    /\ CommandHistory

\* issy close <id>
closeIssueCommand(id) ==
    /\ ops < MaxOps
    /\ call' = NoKeyCall
    /\ updateIssue("closeIssue", id, UpdateInput(<<>>, "closed", NoOrder))
    /\ UNCHANGED issued
    /\ CommandHistory

\* issy reopen <id> [--before|--after|--first|--last]
reopenIssueCommand_dropsOrder(id, options) ==
    /\ ops < MaxOps
    /\ \E list \in OpenLists :
         LET order == resolvePosition(list, options, TRUE, id)
         IN /\ call' = KeyCall(list, options, id, order)
            /\ IF order.kind # "ok"
               THEN CommandFailed("reopenIssueCommand", id, order.kind)
               ELSE /\ updateIssue("reopenIssue", id, UpdateInput(<<>>, "open", NoOrder))
                    /\ UNCHANGED issued
    /\ CommandHistory

reopenIssueCommand(id, options) ==
    /\ ops < MaxOps
    /\ \E list \in OpenLists :
         LET order == resolvePosition(list, options, TRUE, id)
         IN /\ call' = KeyCall(list, options, id, order)
            /\ IF order.kind # "ok"
               THEN CommandFailed("reopenIssueCommand", id, order.kind)
               ELSE /\ updateIssue("reopenIssue", id, UpdateInput(<<>>, "open", order.key))
                    /\ UNCHANGED issued
    /\ CommandHistory

NextCLI ==
    \/ \E title \in Titles, options \in CommandFlags : createIssueCommand(title, options)
    \/ \E id \in IdArgs, options \in CommandFlags : updateIssueCommand(id, options)
    \/ \E id \in IdArgs : closeIssueCommand(id)
    \/ \E id \in IdArgs, options \in CommandFlags : reopenIssueCommand(id, options)

SpecCLI == Init /\ [][NextCLI]_vars

\* C11: when issues are created, reopened, repositioned and closed through
\* the CLI commands only, starting from an empty store, every open issue
\* holds an order and no two open issues hold the same order.
C11_OpenOrdersDistinct ==
    /\ OpenFiles \subseteq Ordered
    /\ \A f, g \in OpenFiles : f # g => files[f].order # files[g].order

\* an issue was reopened next to an open issue that had been given, while the
\* first was closed, the very order the first held
C11_Witness ==
    /\ Returned("reopenIssue")
    /\ Cardinality(OpenFiles) = 2
    /\ \E f, g \in OpenFiles :
         /\ f.id = last.ret
         /\ g # f
         /\ last.read.status = "closed"
         /\ last.read.order = files[g].order

\* C12: resolvePosition returns a key only when at most one of --before,
\* --after, --first, --last is given and, for create and reopen, exactly one
\* when an open issue other than the excluded one exists; a command whose
\* position request is rejected ends with an error and leaves every issue
\* file as it was.
C12_PositionRequests ==
    [][/\ call'.result.kind = "ok" =>
            /\ FlagCount(call'.options) <= 1
            /\ (last'.op \in {"createIssue", "reopenIssue"} /\ Len(Remaining') > 0)
                 => FlagCount(call'.options) = 1
       /\ call'.result.kind \notin {"ok", "none"} =>
            /\ last'.op \in {"createIssueCommand", "updateIssueCommand",
                             "reopenIssueCommand"}
            /\ last'.error = call'.result.kind
            /\ files' = files]_vars

\* a reopen of a closed issue without a flag was rejected while another issue
\* was open
C12_Witness ==
    /\ last.op = "reopenIssueCommand"
    /\ last.error = "Required"
    /\ Len(Remaining) > 0
    /\ \E f \in DOMAIN files : f.id = padStart(last.id, IdWidth) /\ files[f].status = "closed"

\* ---------------------------------------------------------------------
\* Reading and removing issues
\* ---------------------------------------------------------------------

\* C13: whatever order readdir lists the files in, getAllIssues() holds
\* every issue file exactly once, the issues with an order first, ascending
\* by order, the issues without an order after them, and every tie (equal
\* orders, or no order on both sides) in ascending order of id.
C13_AllIssuesSorted ==
    \A dir \in Listings(getIssueFiles) :
       \A all \in { getAllIssues(dir) } :
          /\ Len(all) = Cardinality(getIssueFiles)
          /\ { all[i].filename : i \in 1..Len(all) } = getIssueFiles
          /\ \A i, j \in 1..Len(all) :
               i < j =>
                 LET a == all[i].frontmatter.order
                     b == all[j].frontmatter.order
                 IN /\ a = NoOrder => b = NoOrder
                    /\ (a # NoOrder /\ b # NoOrder) => ~StrLess(b, a)
                    /\ a = b => StrLess(all[i].id, all[j].id)

\* the decimal forms of the issue number n: unpadded and zero-padded up to
\* the width of a filename's number
IdForms(n) == { padStart(NumStr(n), w) : w \in 1..IdWidth }

\* C14: whatever order readdir lists the files in, getIssue returns the
\* record of the issue numbered n for every unpadded or zero-padded form of
\* n, and null for every form of a number that no file carries.
C14_GetIssueByAnyForm ==
    \A dir \in Listings(getIssueFiles) :
       \A n \in 0..(MaxIssueNumber + 1) :
          LET held == { f \in getIssueFiles : parseInt(f.id) = n }
          IN \A id \in IdForms(n) :
                IF held = {} THEN getIssue(dir, id) = <<>>
                ELSE \E f \in held : getIssue(dir, id) = <<IssueOf(f)>>

\* issue 3 exists next to another issue and issue 1 has been deleted, so
\* that "3" and "0003" find a record and "1" finds none
C14_Witness ==
    /\ \E f \in getIssueFiles : f.id = <<0, 0, 0, 3>>
    /\ \A f \in getIssueFiles : f.id # <<0, 0, 0, 1>>
    /\ Cardinality(getIssueFiles) = 2
    /\ <<0, 0, 0, 1>> \in issued

\* the files whose id is what the id argument of the last call resolves to
Resolved(id) == { f \in DOMAIN files : f.id = padStart(id, IdWidth) }

\* C16: updateIssue, closeIssue, reopenIssue and deleteIssue called with an
\* id that resolves to no file throw "Issue not found" for that id and leave
\* every file as it was; a deleteIssue that succeeds removes the one file of
\* that id and leaves every other file as it was.
C16_NotFoundChangesNothing ==
    [][(ops' = ops + 1
        /\ last'.op \in {"updateIssue", "closeIssue", "reopenIssue", "deleteIssue"}) =>
          IF Resolved(last'.id) = {}
          THEN /\ last'.error = "Issue not found"
               /\ last'.ret = <<>>
               /\ files' = files
          ELSE /\ last'.error = None
               /\ last'.ret = padStart(last'.id, IdWidth)
               /\ last'.op = "deleteIssue" =>
                    /\ DOMAIN files' = DOMAIN files \ Resolved(last'.id)
                    /\ Cardinality(DOMAIN files') = Cardinality(DOMAIN files) - 1
                    /\ \A g \in DOMAIN files' : files'[g] = files[g]]_vars

\* a deleteIssue for an id whose issue had been deleted before found no file,
\* with another issue in the store
C16_Witness ==
    /\ last.op = "deleteIssue"
    /\ last.error = "Issue not found"
    /\ padStart(last.id, IdWidth) \in issued
    /\ Cardinality(DOMAIN files) = 1

\* ---------------------------------------------------------------------
\* Inputs inside and outside the enums
\* ---------------------------------------------------------------------

\* the inputs createIssue is called with: valid ones, an empty title, and a
\* priority, a scope and a type outside the enums
CreateInputs ==
    LET valid == CreateInput(<<"f", "i", "t">>, NoOrder)
    IN { valid,
         [valid EXCEPT !.priority = "high", !.scope = "small", !.type = "bug"],
         [valid EXCEPT !.title = <<>>],
         [valid EXCEPT !.priority = "urgent"],
         [valid EXCEPT !.scope = "huge"],
         [valid EXCEPT !.type = "task"] }

\* the inputs updateIssue is called with: an empty title (which the merge
\* cannot tell from no title), a valid priority, and a priority, a scope and
\* a type outside the enums
UpdateInputs ==
    LET empty == UpdateInput(<<>>, None, NoOrder)
    IN { empty,
         [empty EXCEPT !.priority = "low"],
         [empty EXCEPT !.priority = "urgent"],
         [empty EXCEPT !.scope = "huge"],
         [empty EXCEPT !.type = "task"] }

\* the input of the store call just made, kept for the properties
InputCall(input) ==
    [list |-> <<>>, options |-> NoOptions, excludeId |-> <<>>,
     result |-> NoKeyCall.result, input |-> input]

\* createIssue(input)
CreateWith(input) ==
    /\ CanCreate
    /\ createIssue(input)
    /\ call' = InputCall(input)
    /\ hist' = "any"
    /\ plain' = <<>>
    /\ run' = NoRun
    /\ ops' = ops + 1

\* updateIssue(id, input)
UpdateWith(id, input) ==
    /\ ops < MaxOps
    /\ updateIssue("updateIssue", id, input)
    /\ call' = InputCall(input)
    /\ hist' = "any"
    /\ plain' = <<>>
    /\ run' = NoRun
    /\ ops' = ops + 1
    /\ UNCHANGED issued

NextInputs ==
    \/ \E input \in CreateInputs : CreateWith(input)
    \/ \E id \in IdArgs, input \in UpdateInputs : UpdateWith(id, input)

SpecInputs == Init /\ [][NextInputs]_vars

\* the constraint an input violates, as the error names it; None when the
\* input is valid
Violated(input) ==
    IF input.title = <<>> THEN "Title is required"
    ELSE IF input.priority \notin {None, "high", "medium", "low"}
    THEN "Priority must be: high, medium, or low"
    ELSE IF input.scope \notin {None, "small", "medium", "large"}
    THEN "Scope must be: small, medium, or large"
    ELSE IF input.type \notin {None, "bug", "improvement"}
    THEN "Type must be: bug or improvement"
    ELSE None

\* C17: a createIssue whose input has an empty title, or a priority, scope
\* or type outside its enum, throws the error that names the constraint,
\* writes no file and leaves the number the next createIssue hands out as it
\* was; a createIssue with a valid input returns that number.
C17_InvalidCreateWritesNothing ==
    [][(ops' = ops + 1 /\ last'.op = "createIssue") =>
          IF Violated(call'.input) # None
          THEN /\ last'.error = Violated(call'.input)
               /\ last'.ret = <<>>
               /\ files' = files
               /\ getNextIssueNumber' = getNextIssueNumber
          ELSE /\ last'.error = None
               /\ last'.ret = getNextIssueNumber]_vars

\* a createIssue with a scope outside the enum failed after two issues had
\* been created
C17_Witness ==
    /\ last.op = "createIssue"
    /\ last.error = "Scope must be: small, medium, or large"
    /\ call.input.scope = "huge"
    /\ Cardinality(DOMAIN files) = 2

\* C18: an updateIssue whose input has an empty title, or a priority, scope
\* or type outside its enum, throws a validation error and leaves the file
\* as it was, and no stored issue has a priority, scope or type outside its
\* enum.
C18_InvalidUpdateRejected ==
    [][/\ (ops' = ops + 1 /\ last'.op = "updateIssue" /\ Resolved(last'.id) # {}
           /\ (call'.input.title = <<>> \/ Violated(call'.input) # None)) =>
             /\ last'.error \notin {None, "Issue not found"}
             /\ files' = files
       /\ \A f \in DOMAIN files' :
             /\ files'[f].priority \in {"high", "medium", "low"}
             /\ files'[f].scope \in {None, "small", "medium", "large"}
             /\ files'[f].type \in {"bug", "improvement"}]_vars

\* ---------------------------------------------------------------------
\* Frontmatter text
\* ---------------------------------------------------------------------
\* The content of a file is a sequence of characters.  A word that holds none
\* of the characters the code looks for (a key such as title, a value such as
\* medium, the fence ---) stands in the sequence as one element.

NL == "\n"
QUOTE == "\""
APOS == "'"
BSL == "\\"
FENCE == "---"

\* the characters the regex of yamlQuote names (colon, hash, brackets,
\* braces, quotes, comma, newline and so on), but for the backquote, which
\* no title of the model holds
QuoteTriggers ==
    {":", "#", "[", "]", "{", "}", "&", "*", "!", "|", ">", APOS, QUOTE, "%",
     "@", ",", NL}

\* the characters String.prototype.trim removes
Blank(c) == c \in {" ", NL, "\t", "\r"}

\* value.trim()
RECURSIVE trimStart(_)
trimStart(s) == IF s # <<>> /\ Blank(s[1]) THEN trimStart(Tail(s)) ELSE s

RECURSIVE trimEnd(_)
trimEnd(s) ==
    IF s # <<>> /\ Blank(s[Len(s)]) THEN trimEnd(SubSeq(s, 1, Len(s) - 1)) ELSE s

trim(s) == trimEnd(trimStart(s))

\* the escaping of yamlQuote: every backslash becomes two backslashes, then
\* every double quote becomes a backslash and a double quote
RECURSIVE escape(_)
escape(s) ==
    IF s = <<>> THEN <<>>
    ELSE (IF s[1] = BSL THEN <<BSL, BSL>>
          ELSE IF s[1] = QUOTE THEN <<BSL, QUOTE>>
          ELSE <<s[1]>>) \o escape(Tail(s))

\* s.replace(/<a><b>/g, c): every occurrence of the two characters a b,
\* found from the left and not overlapping, becomes c
RECURSIVE replacePair(_, _, _, _)
replacePair(s, a, b, c) ==
    IF s = <<>> THEN <<>>
    ELSE IF Len(s) >= 2 /\ s[1] = a /\ s[2] = b
    THEN <<c>> \o replacePair(SubSeq(s, 3, Len(s)), a, b, c)
    ELSE <<s[1]>> \o replacePair(Tail(s), a, b, c)

\* yamlQuote(value)
yamlQuote(value) ==
    IF (\E i \in 1..Len(value) : value[i] \in QuoteTriggers) \/ value # trim(value)
    THEN <<QUOTE>> \o escape(value) \o <<QUOTE>>
    ELSE value

\* yamlUnquote(value)
yamlUnquote(value) ==
    LET startsWith(c) == value # <<>> /\ value[1] = c
        endsWith(c) == value # <<>> /\ value[Len(value)] = c
        inner == SubSeq(value, 2, Len(value) - 1)
    IN IF (startsWith(QUOTE) /\ endsWith(QUOTE)) \/ (startsWith(APOS) /\ endsWith(APOS))
       THEN IF startsWith(QUOTE)
            THEN replacePair(replacePair(inner, BSL, QUOTE, QUOTE), BSL, BSL, BSL)
            ELSE inner
       ELSE value

\* the characters of the base-62 digits of an order key
Digits ==
    <<"0", "1", "2", "3", "4", "5", "6", "7", "8", "9",
      "A", "B", "C", "D", "E", "F", "G", "H", "I", "J", "K", "L", "M",
      "N", "O", "P", "Q", "R", "S", "T", "U", "V", "W", "X", "Y", "Z",
      "a", "b", "c", "d", "e", "f", "g", "h", "i", "j", "k", "l", "m",
      "n", "o", "p", "q", "r", "s", "t", "u", "v", "w", "x", "y", "z">>

\* an order key as characters, and characters as an order key; a character
\* that is no digit is kept as -1
OrderText(order) == [i \in 1..Len(order) |-> Digits[order[i] + 1]]

OrderOf(text) ==
    [i \in 1..Len(text) |->
       IF \E d \in 1..Base : Digits[d] = text[i]
       THEN (CHOOSE d \in 1..Base : Digits[d] = text[i]) - 1
       ELSE -1]

\* `${value}` for a field whose value the model keeps as one word; undefined
\* prints as the word undefined
Word(v) == IF v = None THEN <<"undefined">> ELSE <<v>>

\* the value of a line as the model keeps it: a word; nothing is the empty
\* string, and of a value of several words the model keeps the first
WordOf(text) == IF text = <<>> THEN None ELSE text[1]

\* `key: value` and a newline before it
Line(key, value) == <<NL, key, ":", " ">> \o value

\* generateFrontmatter(data)
generateFrontmatter(data) ==
    <<FENCE>>
    \o Line("title", yamlQuote(data.title))
    \o Line("priority", Word(data.priority))
    \o (IF data.scope # None THEN Line("scope", Word(data.scope)) ELSE <<>>)
    \o Line("type", Word(data.type))
    \o (IF data.labels # None THEN Line("labels", Word(data.labels)) ELSE <<>>)
    \o Line("status", Word(data.status))
    \o (IF data.order # NoOrder THEN Line("order", OrderText(data.order)) ELSE <<>>)
    \o Line("created", Word(data.created))
    \o (IF data.updated # None THEN Line("updated", Word(data.updated)) ELSE <<>>)
    \o <<NL, FENCE>>

\* s.indexOf(c), 1-based; 0 stands for -1
indexOf(s, c) ==
    LET hits == { i \in 1..Len(s) : s[i] = c }
    IN IF hits = {} THEN 0 ELSE CHOOSE i \in hits : \A j \in hits : i <= j

\* s.split('\n')
RECURSIVE split(_)
split(s) ==
    LET n == indexOf(s, NL)
    IN IF n = 0 THEN <<s>>
       ELSE <<SubSeq(s, 1, n - 1)>> \o split(SubSeq(s, n + 1, Len(s)))

\* where /^---\n([\s\S]*?)\n---\n([\s\S]*)$/ finds the closing fence: the
\* first newline, fence, newline after the opening fence and its newline; 0
\* when the content does not match
closingFence(content) ==
    LET opens == Len(content) >= 2 /\ content[1] = FENCE /\ content[2] = NL
        hits == { k \in 3..(Len(content) - 2) :
                    content[k] = NL /\ content[k + 1] = FENCE /\ content[k + 2] = NL }
    IN IF ~opens \/ hits = {} THEN 0 ELSE CHOOSE k \in hits : \A j \in hits : k <= j

\* the raw value the loop of parseFrontmatter leaves under key: the value of
\* the last line with that key; <<>> when no line has it (undefined)
rawValue(lines, key) ==
    LET HasKey_(i) == LET colonIdx == indexOf(lines[i], ":")
                      IN colonIdx > 1 /\ trim(SubSeq(lines[i], 1, colonIdx - 1)) = <<key>>
        hits == { i \in 1..Len(lines) : HasKey_(i) }
        lastHit == CHOOSE i \in hits : \A j \in hits : j <= i
    IN IF hits = {} THEN <<>>
       ELSE trim(SubSeq(lines[lastHit], indexOf(lines[lastHit], ":") + 1,
                        Len(lines[lastHit])))

\* parseFrontmatter(content); a key no line sets is absent (undefined)
parseFrontmatter(content) ==
    LET k == closingFence(content)
        lines == split(SubSeq(content, 3, k - 1))
    IN IF k = 0
       THEN [frontmatter |->
               [title |-> <<>>, priority |-> None, scope |-> None, type |-> None,
                labels |-> None, status |-> None, order |-> NoOrder,
                created |-> None, updated |-> None],
             body |-> content]
       ELSE [frontmatter |->
               [title |-> yamlUnquote(rawValue(lines, "title")),
                priority |-> WordOf(rawValue(lines, "priority")),
                scope |-> WordOf(rawValue(lines, "scope")),
                type |-> WordOf(rawValue(lines, "type")),
                labels |-> WordOf(rawValue(lines, "labels")),
                status |-> WordOf(rawValue(lines, "status")),
                order |-> OrderOf(rawValue(lines, "order")),
                created |-> WordOf(rawValue(lines, "created")),
                updated |-> WordOf(rawValue(lines, "updated"))],
             body |-> SubSeq(content, k + 3, Len(content))]

\* the characters of the titles the round trip is tried on
TitleChars == {"a", ":", QUOTE, APOS, BSL, " ", NL}

\* longest title the round trip is tried on
MaxTitleLen == 3

\* the titles of up to MaxTitleLen characters
RoundTripTitles == UNION { [1..n -> TitleChars] : n \in 0..MaxTitleLen }

\* the frontmatter records the round trip is tried on: the one createIssue
\* writes for a title alone, and one with every optional field set
FrontmatterRecords ==
    { createFrontmatter(CreateInput(t, NoOrder)) : t \in RoundTripTitles }
    \cup { [createFrontmatter(CreateInput(t, <<Diga, 0>>)) EXCEPT
              !.scope = "small", !.labels = "ui", !.status = "closed",
              !.updated = Now] : t \in RoundTripTitles }

\* the body of an issue file
Body == <<NL, "Details", NL>>

\* parseFrontmatter(`${generateFrontmatter(data)}\n${body}\n`)
RoundTrip(data) ==
    /\ last.op = "init"
    /\ last' = Call("parseFrontmatter", <<>>, data,
                    parseFrontmatter(generateFrontmatter(data) \o <<NL>> \o Body \o <<NL>>),
                    None)
    /\ UNCHANGED <<files, call, issued, plain, hist, run, ops>>

NextFrontmatter == \E data \in FrontmatterRecords : RoundTrip(data)

SpecFrontmatter == Init /\ [][NextFrontmatter]_vars

\* C19: for every frontmatter record, whatever characters its title holds
\* (colon, quotes, backslash, newline, blanks at either end), parsing the
\* text generateFrontmatter makes of it, followed by a body, gives the
\* record back field for field.
C19_FrontmatterRoundTrip ==
    last.op = "parseFrontmatter" => last.ret.frontmatter = last.read

\* the round trip without the newline: it holds for every title in which no
\* newline occurs, and the body comes back as written
RoundTripWithoutNewline ==
    (last.op = "parseFrontmatter"
     /\ \A i \in 1..Len(last.read.title) : last.read.title[i] # NL) =>
       /\ last.ret.frontmatter = last.read
       /\ last.ret.body = Body \o <<NL>>

\* ---------------------------------------------------------------------
\* Issue files as text
\* ---------------------------------------------------------------------
\* In SpecText the directory maps a filename to the content of the file, and
\* every read goes through parseFrontmatter.

\* titles: a plain one, one with a line that reads as a labels entry, and
\* one with a line that reads as the closing fence
PlainTitle == <<"f", "i", "t">>
LabelsLineTitle == <<"a", NL, "labels", ":", " ", "x", NL, "b">>
FenceLineTitle == <<"a", NL, FENCE, NL, "b">>

\* no body given (undefined), and a body
NoBody == <<"undefined">>
Bodies == { NoBody, <<"B">> }

\* what getIssue reads from the file f
readIssue(f) ==
    LET parsed == parseFrontmatter(files[f])
    IN [id |-> getIssueIdFromFilename(f), filename |-> f,
        frontmatter |-> parsed.frontmatter, content |-> parsed.body]

\* the arguments of the store call just made, kept for the properties
TextCall(input, body) ==
    [list |-> <<>>, options |-> NoOptions, excludeId |-> <<>>,
     result |-> NoKeyCall.result, input |-> input, body |-> body]

\* createIssue(input) with input.body = body, down to the content written
CreateText(input, body) ==
    LET issueNumber == getNextIssueNumber
        filename == Filename(issueNumber, createSlug(input.title))
        text == IF body = NoBody THEN Body ELSE body
        content == generateFrontmatter(createFrontmatter(input)) \o <<NL>> \o text \o <<NL>>
    IN /\ CanCreate
       /\ createError(input) = None
       /\ files' = writeFile(filename, content)
       /\ last' = Call("createIssue", <<>>, <<>>, issueNumber, None)
       /\ issued' = issued \cup {issueNumber}
       /\ call' = TextCall(input, body)
       /\ hist' = "any"
       /\ plain' = <<>>
       /\ run' = NoRun
       /\ ops' = ops + 1

\* updateIssue(id, input) with input.body = body, down to the content written
UpdateText(id, input, body) ==
    /\ ops < MaxOps
    /\ IF IssueMatches(id) = {}
       THEN /\ last' = Call("updateIssue", id, <<>>, <<>>, "Issue not found")
            /\ UNCHANGED files
       ELSE \E f \in IssueMatches(id) :
              LET issue == readIssue(f)
                  updatedFrontmatter == updateFrontmatter(issue.frontmatter, input)
                  updatedContent == IF body # NoBody THEN <<NL>> \o body \o <<NL>>
                                    ELSE issue.content
                  content == generateFrontmatter(updatedFrontmatter) \o <<NL>>
                             \o updatedContent
              IN /\ files' = writeFile(f, content)
                 /\ last' = Call("updateIssue", id, issue, getIssueIdFromFilename(f), None)
    /\ call' = TextCall(input, body)
    /\ hist' = "any"
    /\ plain' = <<>>
    /\ run' = NoRun
    /\ ops' = ops + 1
    /\ UNCHANGED issued

\* the patches updateIssue is called with
TextPatches ==
    LET empty == UpdateInput(<<>>, None, NoOrder)
    IN { empty,
         [empty EXCEPT !.priority = "low"],
         [empty EXCEPT !.labels = "ui"],
         [empty EXCEPT !.title = LabelsLineTitle],
         [empty EXCEPT !.title = FenceLineTitle] }

NextText ==
    \/ \E body \in Bodies : CreateText(CreateInput(PlainTitle, NoOrder), body)
    \/ \E id \in IdArgs, input \in TextPatches, body \in Bodies : UpdateText(id, input, body)

SpecText == Init /\ [][NextText]_vars

\* what the file of the issue the last call returned reads as now, compared
\* with what it read as before the call (last.read) and the patch (call.input,
\* call.body): every field of the patch holds the value given, every other
\* field the value read before, updated is set, and the body is the one
\* given, or else the one read before
PatchApplied ==
    \A f \in DOMAIN files :
       f.id = last.ret =>
         LET now == readIssue(f)
             before == last.read
             patch == call.input
             Kept(given, new, old, value) == value = IF given THEN new ELSE old
         IN /\ Kept(patch.title # <<>>, patch.title,
                    before.frontmatter.title, now.frontmatter.title)
            /\ Kept(patch.priority # None, patch.priority,
                    before.frontmatter.priority, now.frontmatter.priority)
            /\ Kept(patch.scope # None, patch.scope,
                    before.frontmatter.scope, now.frontmatter.scope)
            /\ Kept(patch.type # None, patch.type,
                    before.frontmatter.type, now.frontmatter.type)
            /\ Kept(patch.labels # Undefined, patch.labels,
                    before.frontmatter.labels, now.frontmatter.labels)
            /\ Kept(patch.status # None, patch.status,
                    before.frontmatter.status, now.frontmatter.status)
            /\ Kept(patch.order # NoOrder, patch.order,
                    before.frontmatter.order, now.frontmatter.order)
            /\ now.frontmatter.created = before.frontmatter.created
            /\ now.frontmatter.updated = Now
            /\ Kept(call.body # NoBody, <<NL>> \o call.body \o <<NL>>,
                    before.content, now.content)

\* C15: after a successful updateIssue(id, patch) the issue's file holds the
\* fields of the patch as given and updated set, every field the patch omits
\* as it was before the call, and the body as it was unless the patch gives
\* one, also after several updates in a row.
C15_UpdateChangesPatchOnly == Returned("updateIssue") => PatchApplied

\* the same for the patches whose title holds no newline
PatchAppliedWithoutNewline ==
    (Returned("updateIssue")
     /\ \A f \in DOMAIN files : \A i \in 1..Len(readIssue(f).frontmatter.title) :
           readIssue(f).frontmatter.title[i] \notin {NL, QUOTE}) => PatchApplied

\* ---------------------------------------------------------------------
\* Queries
\* ---------------------------------------------------------------------
\* A query is a sequence of characters in which a word (a key such as is, a
\* value such as open, a word of the search text) stands as one element.

\* SUPPORTED_QUALIFIERS
SUPPORTED_QUALIFIERS == {"is", "priority", "type", "label", "sort"}

\* toLowerCase on the words of the queries and labels
lower(w) ==
    CASE w = "OPEN" -> "open"
      [] w = "High" -> "high"
      [] w = "Bug" -> "bug"
      [] w = "API" -> "api"
      [] w = "Front" -> "front"
      [] w = "IS" -> "is"
      [] OTHER -> w

toLower(s) == [i \in 1..Len(s) |-> lower(s[i])]

\* tokenizeQuery(query): the loop from character i on, with the token read so
\* far, inQuotes, quoteChar and the tokens pushed so far
RECURSIVE tokenizeFrom(_, _, _, _, _, _)
tokenizeFrom(query, i, currentToken, inQuotes, quoteChar, tokens) ==
    IF i > Len(query)
    THEN IF currentToken # <<>> THEN Append(tokens, currentToken) ELSE tokens
    ELSE LET char == query[i]
         IN IF (char = QUOTE \/ char = APOS) /\ ~inQuotes
            THEN tokenizeFrom(query, i + 1, currentToken, TRUE, char, tokens)
            ELSE IF char = quoteChar /\ inQuotes
            THEN tokenizeFrom(query, i + 1, currentToken, FALSE, "", tokens)
            ELSE IF char = " " /\ ~inQuotes
            THEN IF currentToken # <<>>
                 THEN tokenizeFrom(query, i + 1, <<>>, inQuotes, quoteChar,
                                   Append(tokens, currentToken))
                 ELSE tokenizeFrom(query, i + 1, currentToken, inQuotes, quoteChar, tokens)
            ELSE tokenizeFrom(query, i + 1, Append(currentToken, char), inQuotes,
                              quoteChar, tokens)

tokenizeQuery(query) == tokenizeFrom(query, 1, <<>>, FALSE, "", <<>>)

IsQualifier_caseSensitive(token) ==
    LET colonIndex == indexOf(token, ":")
    IN /\ colonIndex > 1
       /\ colonIndex < Len(token)
       /\ colonIndex = 2
       /\ token[1] \in SUPPORTED_QUALIFIERS

\* a token of the form key:value whose key, in lower case, is supported; a
\* supported key is one word, so the colon is the second element
IsQualifier(token) ==
    LET colonIndex == indexOf(token, ":")
    IN /\ colonIndex > 1
       /\ colonIndex < Len(token)
       /\ colonIndex = 2
       /\ lower(token[1]) \in SUPPORTED_QUALIFIERS

\* parts.join(' ')
RECURSIVE join(_)
join(parts) ==
    IF parts = <<>> THEN <<>>
    ELSE IF Len(parts) = 1 THEN parts[1]
    ELSE parts[1] \o <<" ">> \o join(Tail(parts))

\* parseQuery(query): qualifiers[key] is the value of the last token with that
\* key, <<>> when there is none (undefined)
parseQuery(query) ==
    LET tokens == tokenizeQuery(query)
        Value(key) ==
            LET hits == { i \in 1..Len(tokens) :
                            IsQualifier(tokens[i]) /\ lower(tokens[i][1]) = key }
                lastHit == CHOOSE i \in hits : \A j \in hits : j <= i
            IN IF hits = {} THEN <<>>
               ELSE SubSeq(tokens[lastHit], 3, Len(tokens[lastHit]))
        IsSearchText(token) == ~IsQualifier(token)
    IN IF trim(query) = <<>>
       THEN [qualifiers |-> [k \in SUPPORTED_QUALIFIERS |-> <<>>], searchText |-> <<>>]
       ELSE [qualifiers |-> [k \in SUPPORTED_QUALIFIERS |-> Value(k)],
             searchText |-> trim(join(SelectSeq(tokens, IsSearchText)))]

\* the characters of an issue's labels
LabelText(labels) ==
    CASE labels = None -> <<>>
      [] labels = "ui" -> <<"ui">>
      [] labels = "frontend, api" -> <<"front", "end", ",", " ", "api">>
      [] labels = "Frontend" -> <<"Front", "end">>

\* the characters of an id
IdText(id) == [i \in 1..Len(id) |-> Digits[id[i] + 1]]

\* text.includes(part) and text.startsWith(part)
includes(text, part) ==
    \E i \in 0..Len(text) :
       i + Len(part) <= Len(text) /\ SubSeq(text, i + 1, i + Len(part)) = part

startsWith(text, part) ==
    Len(part) <= Len(text) /\ SubSeq(text, 1, Len(part)) = part

\* s.replace(/^0+/, '')
RECURSIVE stripZeros(_)
stripZeros(s) == IF s # <<>> /\ s[1] = "0" THEN stripZeros(Tail(s)) ELSE s

\* a.localeCompare(b) on ids: -1, 0 or 1
compareIds(a, b) == IF StrLess(a, b) THEN -1 ELSE IF StrLess(b, a) THEN 1 ELSE 0

\* the timestamps of the issues; '' comes before every timestamp
DateRank(d) ==
    CASE d = None -> 0 [] d = "d1" -> 1 [] d = "d2" -> 2 [] d = "d3" -> 3
      [] d = Now -> 4

\* a.localeCompare(b) on timestamps: negative, 0 or positive
compareDates(a, b) == DateRank(a) - DateRank(b)

\* priorityOrder[priority] ?? 999
priorityOrder(priority) ==
    CASE priority = "high" -> 0 [] priority = "medium" -> 1 [] priority = "low" -> 2
      [] OTHER -> 999

\* the comparators of sortIssues
byPriority_oldestFirst(a, b) ==
    IF priorityOrder(a.frontmatter.priority) # priorityOrder(b.frontmatter.priority)
    THEN priorityOrder(a.frontmatter.priority) - priorityOrder(b.frontmatter.priority)
    ELSE compareIds(a.id, b.id)

byPriority(a, b) ==
    IF priorityOrder(a.frontmatter.priority) # priorityOrder(b.frontmatter.priority)
    THEN priorityOrder(a.frontmatter.priority) - priorityOrder(b.frontmatter.priority)
    ELSE compareIds(b.id, a.id)

byCreated(a, b) ==
    IF a.frontmatter.created # b.frontmatter.created
    THEN compareDates(b.frontmatter.created, a.frontmatter.created)
    ELSE compareIds(b.id, a.id)

byCreatedAsc(a, b) ==
    IF a.frontmatter.created # b.frontmatter.created
    THEN compareDates(a.frontmatter.created, b.frontmatter.created)
    ELSE compareIds(a.id, b.id)

byUpdated(a, b) ==
    LET dateA == IF a.frontmatter.updated # None THEN a.frontmatter.updated
                 ELSE a.frontmatter.created
        dateB == IF b.frontmatter.updated # None THEN b.frontmatter.updated
                 ELSE b.frontmatter.created
    IN IF dateA # dateB THEN compareDates(dateB, dateA) ELSE compareIds(b.id, a.id)

byId(a, b) == compareIds(b.id, a.id)

\* Array.prototype.sort (stable) under the comparator for sortOption
sortIssues(issues, sortOption) ==
    LET compare(a, b) ==
            IF sortOption = <<"priority">> THEN byPriority(a, b)
            ELSE IF sortOption = <<"created">> THEN byCreated(a, b)
            ELSE IF sortOption = <<"created", "-", "asc">> THEN byCreatedAsc(a, b)
            ELSE IF sortOption = <<"updated">> THEN byUpdated(a, b)
            ELSE IF sortOption = <<"id">> THEN byId(a, b)
            ELSE byPriority(a, b)
        Before(i, j) == \/ compare(issues[i], issues[j]) < 0
                        \/ compare(issues[i], issues[j]) = 0 /\ i < j
        rank(i) == Cardinality({ j \in 1..Len(issues) : Before(j, i) })
    IN [r \in 1..Len(issues) |-> issues[CHOOSE i \in 1..Len(issues) : rank(i) = r - 1]]

\* fuse.search(searchQuery) over the issues: the issues whose title, labels or
\* content hold the search text, case ignored, each with score 0, in the
\* order of the collection
fuseSearch(issues, searchQuery) ==
    LET Matches(issue) ==
            \/ includes(toLower(issue.frontmatter.title), toLower(searchQuery))
            \/ includes(toLower(LabelText(issue.frontmatter.labels)), toLower(searchQuery))
            \/ includes(toLower(issue.content), toLower(searchQuery))
        found == SelectSeq(issues, Matches)
    IN [i \in 1..Len(found) |-> [item |-> found[i], score |-> 0]]

\* the filter of filterByQuery: the issue passes every qualifier of the
\* query whose value is valid
passesQualifiers(issue, qualifiers) ==
    LET statusValue == toLower(qualifiers["is"])
        priorityValue == toLower(qualifiers["priority"])
        typeValue == toLower(qualifiers["type"])
        labelQuery == toLower(qualifiers["label"])
    IN /\ statusValue \in {<<"open">>, <<"closed">>}
            => <<issue.frontmatter.status>> = statusValue
       /\ priorityValue \in {<<"high">>, <<"medium">>, <<"low">>}
            => <<issue.frontmatter.priority>> = priorityValue
       /\ typeValue \in {<<"bug">>, <<"improvement">>}
            => <<issue.frontmatter.type>> = typeValue
       /\ labelQuery # <<>>
            => includes(toLower(LabelText(issue.frontmatter.labels)), labelQuery)

\* the score of the first search result for the issue, in tenths; 1 when
\* there is none
scoreOf(searchResults, issue) ==
    LET hits == { r \in 1..Len(searchResults) : searchResults[r].item.id = issue.id }
    IN IF hits = {} THEN 10
       ELSE searchResults[CHOOSE r \in hits : \A q \in hits : r <= q].score

\* the search part of filterByQuery and filterAndSearchIssues: the id
\* matches of result, then its other issues among the searchResults of the
\* fuzzy search, sorted (Array.prototype.sort, stable) by score
rankMatches_byScoreOnly(result, query, searchResults) ==
    LET Matched(issue) ==
            \E r \in 1..Len(searchResults) : searchResults[r].item.id = issue.id
        matches == SelectSeq(result, Matched)
        Before(i, j) ==
            \/ scoreOf(searchResults, matches[i]) < scoreOf(searchResults, matches[j])
            \/ /\ scoreOf(searchResults, matches[i]) = scoreOf(searchResults, matches[j])
               /\ i < j
        rank(i) == Cardinality({ j \in 1..Len(matches) : Before(j, i) })
    IN [r \in 1..Len(matches) |->
           matches[CHOOSE i \in 1..Len(matches) : rank(i) = r - 1]]

rankMatches(result, query, searchResults) ==
    LET normalizedQuery == stripZeros(query)
        IsIdMatch(issue) ==
            \/ startsWith(stripZeros(IdText(issue.id)), normalizedQuery)
            \/ startsWith(IdText(issue.id), query)
        idMatches == SelectSeq(result, IsIdMatch)
        IsFuzzyMatch(issue) ==
            /\ ~ \E m \in 1..Len(idMatches) : idMatches[m].id = issue.id
            /\ \E r \in 1..Len(searchResults) : searchResults[r].item.id = issue.id
        nonIdMatches == SelectSeq(result, IsFuzzyMatch)
        Before(i, j) ==
            \/ scoreOf(searchResults, nonIdMatches[i]) < scoreOf(searchResults, nonIdMatches[j])
            \/ /\ scoreOf(searchResults, nonIdMatches[i])
                    = scoreOf(searchResults, nonIdMatches[j])
               /\ i < j
        rank(i) == Cardinality({ j \in 1..Len(nonIdMatches) : Before(j, i) })
    IN idMatches \o [r \in 1..Len(nonIdMatches) |->
                       nonIdMatches[CHOOSE i \in 1..Len(nonIdMatches) : rank(i) = r - 1]]

\* filterByQuery(issues, query)
filterByQuery(issues, query) ==
    LET parsed == parseQuery(query)
        Passes(issue) == passesQualifiers(issue, parsed.qualifiers)
        filtered == SelectSeq(issues, Passes)
        searchQuery == trim(parsed.searchText)
        sortBy == IF parsed.qualifiers["sort"] # <<>>
                  THEN toLower(parsed.qualifiers["sort"]) ELSE <<"priority">>
    IN IF searchQuery = <<>> THEN sortIssues(filtered, sortBy)
       ELSE rankMatches(filtered, searchQuery, fuseSearch(filtered, searchQuery))

\* filterIssues(issues, filters)
filterIssues(issues, filters) ==
    LET Passes(issue) ==
            /\ filters.status # None => issue.frontmatter.status = filters.status
            /\ filters.priority # None => issue.frontmatter.priority = filters.priority
            /\ filters.type # None => issue.frontmatter.type = filters.type
    IN SelectSeq(issues, Passes)

\* an issue as getAllIssues returns it
QueryIssue(n, priority, scope, type, labels, status, order, created, updated) ==
    [id |-> padStart(NumStr(n), IdWidth),
     filename |-> Filename(padStart(NumStr(n), IdWidth), createSlug(PlainTitle)),
     frontmatter |-> [title |-> PlainTitle, priority |-> priority, scope |-> scope,
                      type |-> type, labels |-> labels, status |-> status,
                      order |-> order, created |-> created, updated |-> updated],
     content |-> <<"x">>]

\* the collection the queries run over
QueryIssues ==
    << QueryIssue(1, "high", "small", "bug", "frontend, api", "open", <<Diga, 2>>, "d1", None),
       QueryIssue(2, "medium", None, "improvement", "ui", "closed", <<Diga, 0>>, "d2", "d3"),
       QueryIssue(3, "low", "large", "bug", None, "open", NoOrder, "d2", None),
       QueryIssue(4, "high", "small", "improvement", "Frontend", "open", <<Diga, 1>>, "d1",
                  None) >>

\* the sub-collections of QueryIssues in the order of QueryIssues, and
\* QueryIssues in the reverse order
IssueLists ==
    LET Keep(S) == LET In(issue) == \E i \in S : QueryIssues[i] = issue
                   IN SelectSeq(QueryIssues, In)
    IN { Keep(S) : S \in SUBSET (1..Len(QueryIssues)) }
         \cup { [i \in 1..Len(QueryIssues) |-> QueryIssues[Len(QueryIssues) + 1 - i]] }

\* the tokens the queries are made of: qualifiers with valid and invalid
\* values and in either case, and search text
QueryParts ==
    { <<"is", ":", "open">>, <<"IS", ":", "OPEN">>, <<"is", ":", "bogus">>,
      <<"priority", ":", "high">>, <<"priority", ":", "High">>,
      <<"priority", ":", "urgent">>,
      <<"scope", ":", "small">>, <<"scope", ":", "huge">>,
      <<"type", ":", "bug">>, <<"type", ":", "Bug">>, <<"type", ":", "feature">>,
      <<"label", ":", "front">>, <<"label", ":", "API">>, <<"label", ":", "backend">>,
      <<"sort", ":", "id">>, <<"sort", ":", "updated">>,
      <<"sort", ":", "created", "-", "asc">>, <<"sort", ":", "priority">>,
      <<"sort", ":", "roadmap">>, <<"sort", ":", "bogus">>,
      <<"fit">>, <<"1">>, <<QUOTE, "f", " ", "i", QUOTE>> }

MaxQueryParts == 2

\* the queries: up to MaxQueryParts tokens joined by spaces
Queries ==
    LET Sequences == UNION { [1..n -> QueryParts] : n \in 0..MaxQueryParts }
    IN { join(parts) : parts \in Sequences } \cup { <<" ">> }

\* one call filterByQuery(issues, query)
FilterByQuery(issues, query) ==
    /\ last' = Call("filterByQuery", query, issues, filterByQuery(issues, query), None)
    /\ UNCHANGED <<files, call, issued, plain, hist, run, ops>>

\* a behaviour is one call
NextQuery ==
    /\ last.op = "init"
    /\ \E issues \in IssueLists, query \in Queries : FilterByQuery(issues, query)

SpecQuery == Init /\ [][NextQuery]_vars

\* the keys the filter engine is to recognize
RecognizedKeys == {"is", "priority", "scope", "type", "label", "sort"}

\* the value of the last key:value token of the query for a key, <<>> when the
\* query has none, in lower case
QualifierValue(query, key) ==
    LET tokens == tokenizeQuery(query)
        hits == { i \in 1..Len(tokens) :
                    /\ Len(tokens[i]) >= 3
                    /\ tokens[i][2] = ":"
                    /\ lower(tokens[i][1]) = key }
        lastHit == CHOOSE i \in hits : \A j \in hits : j <= i
    IN IF hits = {} THEN <<>>
       ELSE toLower(SubSeq(tokens[lastHit], 3, Len(tokens[lastHit])))

\* every token of the query is a qualifier with a recognized key
OnlyQualifiers(query) ==
    LET tokens == tokenizeQuery(query)
    IN \A i \in 1..Len(tokens) :
          /\ Len(tokens[i]) >= 3
          /\ tokens[i][2] = ":"
          /\ lower(tokens[i][1]) \in RecognizedKeys

\* the issue satisfies every valid qualifier of the query among the given keys
SatisfiesKeys(issue, query, keys) ==
    LET fm == issue.frontmatter
        Valid(key, values) == key \in keys /\ QualifierValue(query, key) \in values
    IN /\ Valid("is", {<<"open">>, <<"closed">>})
            => <<fm.status>> = QualifierValue(query, "is")
       /\ Valid("priority", {<<"high">>, <<"medium">>, <<"low">>})
            => <<fm.priority>> = QualifierValue(query, "priority")
       /\ Valid("scope", {<<"small">>, <<"medium">>, <<"large">>})
            => <<fm.scope>> = QualifierValue(query, "scope")
       /\ Valid("type", {<<"bug">>, <<"improvement">>})
            => <<fm.type>> = QualifierValue(query, "type")
       /\ ("label" \in keys /\ QualifierValue(query, "label") # <<>>)
            => includes(toLower(LabelText(fm.labels)), QualifierValue(query, "label"))

\* the result holds exactly the issues of the collection that satisfy the
\* qualifiers of the query among the given keys, each once
ExactlySatisfying(keys) ==
    LET issues == last.read
        query == last.id
        result == last.ret
    IN /\ { result[i] : i \in 1..Len(result) }
            = { issues[i] : i \in { j \in 1..Len(issues) :
                                      SatisfiesKeys(issues[j], query, keys) } }
       /\ \A i, j \in 1..Len(result) : result[i] = result[j] => i = j

\* C20: with no search text in the query, filterByQuery returns exactly the
\* issues of the collection that satisfy every valid qualifier among is,
\* priority, scope, type and label (label as a substring of the labels, case
\* ignored), and no other issue.
C20_QualifiersFilterExactly ==
    (last.op = "filterByQuery" /\ OnlyQualifiers(last.id))
        => ExactlySatisfying({"is", "priority", "scope", "type", "label"})

\* the same for the queries without a scope qualifier
QualifiersFilterExactlyWithoutScope ==
    (last.op = "filterByQuery" /\ OnlyQualifiers(last.id)
       /\ QualifierValue(last.id, "scope") = <<>>)
        => ExactlySatisfying({"is", "priority", "type", "label"})

\* the values each filtering qualifier accepts
AcceptedValues(key) ==
    CASE key = "is" -> {<<"open">>, <<"closed">>}
      [] key = "priority" -> {<<"high">>, <<"medium">>, <<"low">>}
      [] key = "scope" -> {<<"small">>, <<"medium">>, <<"large">>}
      [] key = "type" -> {<<"bug">>, <<"improvement">>}

\* the query is one key:value token whose key is among the given keys and
\* whose value is outside the values the key accepts
OneInvalidQualifier(query, keys) ==
    LET tokens == tokenizeQuery(query)
    IN /\ Len(tokens) = 1
       /\ Len(tokens[1]) >= 3
       /\ tokens[1][2] = ":"
       /\ \E key \in keys :
             /\ lower(tokens[1][1]) = key
             /\ QualifierValue(query, key) \notin AcceptedValues(key)

\* the result of the call has the issues of the input, each once
SameMembership ==
    /\ { last.ret[i] : i \in 1..Len(last.ret) } = { last.read[i] : i \in 1..Len(last.read) }
    /\ Len(last.ret) = Len(last.read)

\* C21: a qualifier among is, priority, scope and type whose value is outside
\* the accepted set excludes no issue: with that qualifier alone the result of
\* filterByQuery has the same membership as the input.
C21_InvalidValueFiltersNothing ==
    (last.op = "filterByQuery"
       /\ OneInvalidQualifier(last.id, {"is", "priority", "scope", "type"}))
        => SameMembership

\* the same for the qualifiers is, priority and type
InvalidValueFiltersNothingWithoutScope ==
    (last.op = "filterByQuery" /\ OneInvalidQualifier(last.id, {"is", "priority", "type"}))
        => SameMembership

SortAmong(query, values) == QualifierValue(query, "sort") \in values

\* roadmap order allows the issue a ahead of the issue b: the order keys
\* ascend, and an issue without an order key is behind every issue with one
RoadmapAllows(a, b) ==
    /\ a.frontmatter.order = NoOrder => b.frontmatter.order = NoOrder
    /\ (a.frontmatter.order # NoOrder /\ b.frontmatter.order # NoOrder)
          => ~StrLess(b.frontmatter.order, a.frontmatter.order)

\* C23: with no search text in the query and a sort qualifier that is
\* absent or equal to roadmap, filterByQuery returns the issues in roadmap
\* order (ascending order key, issues without order last), whatever their
\* priorities and ids.
C23_DefaultSortIsRoadmap ==
    (last.op = "filterByQuery" /\ OnlyQualifiers(last.id)
       /\ SortAmong(last.id, {<<>>, <<"roadmap">>}))
        => \A i, j \in 1..Len(last.ret) : i < j => RoadmapAllows(last.ret[i], last.ret[j])

\* the place of a priority in the priority sort
PriorityPlace(priority) ==
    CASE priority = "high" -> 1 [] priority = "medium" -> 2 [] priority = "low" -> 3

\* the sequence runs high, medium, low, with descending ids inside a priority
PrioritySorted(s) ==
    \A i, j \in 1..Len(s) :
       i < j => \/ PriorityPlace(s[i].frontmatter.priority)
                     < PriorityPlace(s[j].frontmatter.priority)
                \/ /\ s[i].frontmatter.priority = s[j].frontmatter.priority
                   /\ StrLess(s[j].id, s[i].id)

\* the query with sort:priority in the place of sort:bogus
WithSortPriority(query) ==
    [i \in 1..Len(query) |->
        IF i >= 3 /\ query[i - 2] = "sort" /\ query[i - 1] = ":" /\ query[i] = "bogus"
        THEN "priority" ELSE query[i]]

\* C24: with no search text in the query and sort:priority, filterByQuery
\* orders the issues high, then medium, then low, with descending id inside
\* each priority, and a sort value that is not recognised (sort:bogus) yields
\* the same sequence as sort:priority.
C24_PrioritySort ==
    (last.op = "filterByQuery" /\ OnlyQualifiers(last.id)
       /\ SortAmong(last.id, {<<"priority">>, <<"bogus">>}))
        => /\ PrioritySorted(last.ret)
           /\ last.ret = filterByQuery(last.read, WithSortPriority(last.id))

\* sort:bogus has put the four issues, given by ascending id, in the order
\* 0004, 0001 (high), 0002 (medium), 0003 (low)
C24_Witness ==
    /\ last.op = "filterByQuery"
    /\ last.id = <<"sort", ":", "bogus">>
    /\ last.read = QueryIssues
    /\ last.ret = <<QueryIssues[4], QueryIssues[1], QueryIssues[2], QueryIssues[3]>>

\* ---------------------------------------------------------------------
\* Searching
\* ---------------------------------------------------------------------

\* the scores a fuzzy search can give an issue, in tenths; NoMatch when the
\* search does not return the issue
NoMatch == -1
FuzzyScores == {NoMatch, 1, 5}

\* what fuse.search can return: for every issue of QueryIssues (by number)
\* whether it is found and with which score
ScoreTables == [1..Len(QueryIssues) -> FuzzyScores]

\* fuse.search over the collection under the score table: the issues of the
\* collection the search finds, with their scores
searchUnder(scores, collection) ==
    LET Found(issue) == scores[parseInt(issue.id)] # NoMatch
        found == SelectSeq(collection, Found)
    IN [i \in 1..Len(found) |-> [item |-> found[i], score |-> scores[parseInt(found[i].id)]]]

\* the search texts: prefixes of ids with and without leading zeros, zeros
\* only, and a word
SearchTexts == { <<"1">>, <<"0", "0", "0", "3">>, <<"0">>, <<"fit">> }

\* the queries with search text: a search text, alone or behind a qualifier
SearchQueries ==
    SearchTexts
      \cup { <<"is", ":", "open", " ">> \o text : text \in SearchTexts }
      \cup { <<"priority", ":", "high", " ">> \o text : text \in SearchTexts }

\* the filters objects of filterAndSearchIssues
SearchFilters ==
    [status : {None, "open"}, priority : {None, "high"}, type : {None},
     search : SearchTexts \cup {<<>>}]

\* the fuzzy search of the call, recorded for the call
SearchCall(scores) == [scores |-> scores]

\* filterByQuery(issues, query) when fuse.search answers by the score table
filterByQueryScored(issues, query, scores) ==
    LET parsed == parseQuery(query)
        Passes(issue) == passesQualifiers(issue, parsed.qualifiers)
        filtered == SelectSeq(issues, Passes)
        searchQuery == trim(parsed.searchText)
        sortBy == IF parsed.qualifiers["sort"] # <<>>
                  THEN toLower(parsed.qualifiers["sort"]) ELSE <<"priority">>
    IN IF searchQuery = <<>> THEN sortIssues(filtered, sortBy)
       ELSE rankMatches(filtered, searchQuery, searchUnder(scores, filtered))

\* filterAndSearchIssues(issues, filters) when fuse.search answers by the
\* score table
filterAndSearchIssues(issues, filters, scores) ==
    LET result == filterIssues(issues, filters)
        query == trim(filters.search)
    IN IF query = <<>> THEN result
       ELSE rankMatches(result, query, searchUnder(scores, issues))

\* one call filterByQuery(issues, query) in which fuse.search answers by the
\* score table
SearchByQuery(issues, query, scores) ==
    /\ last' = Call("filterByQuery", query, issues,
                    filterByQueryScored(issues, query, scores), None)
    /\ call' = SearchCall(scores)
    /\ UNCHANGED <<files, issued, plain, hist, run, ops>>

\* one call filterAndSearchIssues(issues, filters) in which fuse.search
\* answers by the score table
SearchByFilters(issues, filters, scores) ==
    /\ last' = Call("filterAndSearchIssues", filters, issues,
                    filterAndSearchIssues(issues, filters, scores), None)
    /\ call' = SearchCall(scores)
    /\ UNCHANGED <<files, issued, plain, hist, run, ops>>

\* a behaviour is one call
NextSearch ==
    /\ last.op = "init"
    /\ \/ \E issues \in IssueLists, query \in SearchQueries, scores \in ScoreTables :
             SearchByQuery(issues, query, scores)
       \/ \E issues \in IssueLists, filters \in SearchFilters, scores \in ScoreTables :
             SearchByFilters(issues, filters, scores)

SpecSearch == Init /\ [][NextSearch]_vars

\* a search call has been made
Searched == last.op \in {"filterByQuery", "filterAndSearchIssues"}

\* the search text of the call: the tokens of the query that are not
\* qualifiers, or the search field of the filters
SearchTextOf ==
    IF last.op = "filterByQuery"
    THEN LET tokens == tokenizeQuery(last.id)
             IsText(token) == ~ (Len(token) >= 3 /\ token[2] = ":"
                                   /\ lower(token[1]) \in RecognizedKeys)
         IN join(SelectSeq(tokens, IsText))
    ELSE last.id.search

\* the issue is among the filtered issues of the call
IsFiltered(issue) ==
    IF last.op = "filterByQuery"
    THEN SatisfiesKeys(issue, last.id, {"is", "priority", "scope", "type", "label"})
    ELSE /\ last.id.status # None => issue.frontmatter.status = last.id.status
         /\ last.id.priority # None => issue.frontmatter.priority = last.id.priority
         /\ last.id.type # None => issue.frontmatter.type = last.id.type

\* the id of the issue has the search text as a prefix, after stripping the
\* leading zeros of both or literally
IsIdPrefix(issue) ==
    \/ startsWith(stripZeros(IdText(issue.id)), stripZeros(SearchTextOf))
    \/ startsWith(IdText(issue.id), SearchTextOf)

\* the place of the issue in the input of the call
PlaceOf(issue) == CHOOSE i \in 1..Len(last.read) : last.read[i] = issue

\* the score the fuzzy search of the call gave the issue
FuzzyScoreOf(issue) == call.scores[parseInt(issue.id)]

\* C25: when the search text is not empty, filterByQuery and
\* filterAndSearchIssues return every filtered issue whose id has the text
\* as a prefix ahead of every fuzzy-only match, for any fuzzy scores, with
\* the id matches in their incoming order, the fuzzy matches by ascending
\* score, and no issue twice.
C25_IdMatchesFirst ==
    (Searched /\ SearchTextOf # <<>>)
        => LET ret == last.ret
           IN /\ \A k \in 1..Len(last.read) :
                    (IsFiltered(last.read[k]) /\ IsIdPrefix(last.read[k]))
                        => \E i \in 1..Len(ret) : ret[i] = last.read[k]
              /\ \A i \in 1..Len(ret) :
                    /\ \E k \in 1..Len(last.read) : last.read[k] = ret[i]
                    /\ IsFiltered(ret[i])
                    /\ IsIdPrefix(ret[i]) \/ FuzzyScoreOf(ret[i]) # NoMatch
              /\ \A i, j \in 1..Len(ret) :
                    i < j =>
                       /\ ret[i] # ret[j]
                       /\ IsIdPrefix(ret[j]) => IsIdPrefix(ret[i])
                       /\ (IsIdPrefix(ret[i]) /\ IsIdPrefix(ret[j]))
                             => PlaceOf(ret[i]) < PlaceOf(ret[j])
                       /\ (~IsIdPrefix(ret[i]) /\ ~IsIdPrefix(ret[j]))
                             => FuzzyScoreOf(ret[i]) <= FuzzyScoreOf(ret[j])

\* a search has put an id match ahead of a fuzzy-only match with a better
\* (lower) score, and a fuzzy-only match with a lower score ahead of one
\* with a higher score that came before it in the input
C25_Witness ==
    /\ Searched
    /\ SearchTextOf # <<>>
    /\ \E i, j, k \in 1..Len(last.ret) :
          /\ i < j /\ j < k
          /\ IsIdPrefix(last.ret[i])
          /\ ~IsIdPrefix(last.ret[j])
          /\ ~IsIdPrefix(last.ret[k])
          /\ FuzzyScoreOf(last.ret[i]) > FuzzyScoreOf(last.ret[j])
          /\ FuzzyScoreOf(last.ret[j]) < FuzzyScoreOf(last.ret[k])
          /\ PlaceOf(last.ret[k]) < PlaceOf(last.ret[j])

\* ---------------------------------------------------------------------
\* Parsing queries
\* ---------------------------------------------------------------------

\* the tokens of the parsed queries: qualifiers, some of them twice with
\* different values, a key that is not recognised, a colon at the first and
\* at the last position, and words
ParseParts ==
    { <<"is", ":", "open">>, <<"is", ":", "closed">>, <<"IS", ":", "OPEN">>,
      <<"priority", ":", "high">>, <<"scope", ":", "small">>, <<"scope", ":", "large">>,
      <<"label", ":", "ui">>, <<"sort", ":", "id">>,
      <<"unknown", ":", "value">>, <<":", "x">>, <<"x", ":">>, <<"fit">>, <<"x">> }

\* the parsed queries: up to MaxQueryParts tokens joined by spaces, and
\* queries with blanks around and between the tokens
ParseQueries ==
    LET Sequences == UNION { [1..n -> ParseParts] : n \in 0..MaxQueryParts }
    IN { join(parts) : parts \in Sequences }
         \cup { <<" ">>, <<" ", "fit", " ", " ", "x", " ">> }

\* one call parseQuery(query)
ParseQuery(query) ==
    /\ last' = Call("parseQuery", query, <<>>, parseQuery(query), None)
    /\ UNCHANGED <<files, call, issued, plain, hist, run, ops>>

\* a behaviour is one call
NextParse ==
    /\ last.op = "init"
    /\ \E query \in ParseQueries : ParseQuery(query)

SpecParse == Init /\ [][NextParse]_vars

\* the token has a recognised key, a colon behind it and a value
RecognisedToken(token) ==
    Len(token) >= 3 /\ token[2] = ":" /\ lower(token[1]) \in RecognizedKeys

\* the value of the last token of the query with the key, as written; <<>>
\* when the query has no such token
LastValue(query, key) ==
    LET tokens == tokenizeQuery(query)
        hits == { i \in 1..Len(tokens) :
                    RecognisedToken(tokens[i]) /\ lower(tokens[i][1]) = key }
        lastHit == CHOOSE i \in hits : \A j \in hits : j <= i
    IN IF hits = {} THEN <<>> ELSE SubSeq(tokens[lastHit], 3, Len(tokens[lastHit]))

\* the other tokens of the query, in their order, joined by spaces
OtherTokens(query) ==
    LET IsOther(token) == ~RecognisedToken(token)
    IN join(SelectSeq(tokenizeQuery(query), IsOther))

\* the qualifier of the parse for the key; <<>> when it is undefined
ParsedValue(parsed, key) ==
    IF key \in DOMAIN parsed.qualifiers THEN parsed.qualifiers[key] ELSE <<>>

\* the parse holds the last value of each of the keys and the other tokens as
\* search text
ParsedAs(keys) ==
    /\ \A key \in keys : ParsedValue(last.ret, key) = LastValue(last.id, key)
    /\ last.ret.searchText = OtherTokens(last.id)

\* C26: parseQuery keeps, for a recognised key (is, priority, scope, type,
\* label, sort) that occurs several times, only the value of its last
\* occurrence, and puts every token with an unrecognised key, with a colon at
\* its first or last position, or with no colon into searchText, in their
\* original order, space-joined and trimmed.
C26_ParseQuery ==
    last.op = "parseQuery" => ParsedAs(RecognizedKeys)

\* the same for the queries without a scope token
ParseQueryWithoutScope ==
    (last.op = "parseQuery" /\ LastValue(last.id, "scope") = <<>>)
        => ParsedAs(RecognizedKeys)

\* ---------------------------------------------------------------------
\* Calls that overlap in time
\* ---------------------------------------------------------------------
\* In SpecRace two callers call createIssue and updateIssue, and a call runs
\* in two steps, up to and after the directory and file reads it awaits. The
\* variable call holds, for each caller, the call it has in flight or has
\* just finished, and plain holds the callers in the order in which their
\* writes reached the directory.

Callers == {"A", "B"}

\* a caller that has made no call yet
NoCall ==
    [pc |-> "idle", op |-> "none", id |-> <<>>, input |-> UpdateInput(<<>>, None, NoOrder),
     read |-> <<>>, readAt |-> 0, ret |-> <<>>, at |-> 0, error |-> None]

\* two callers, an empty directory
InitRace ==
    /\ files = << >>
    /\ call = [c \in Callers |-> NoCall]
    /\ last = Call("init", <<>>, <<>>, <<>>, None)
    /\ issued = {}
    /\ plain = <<>>
    /\ hist = "any"
    /\ run = NoRun
    /\ ops = 0

\* the caller has no call in flight
Free(c) == call[c].pc \in {"idle", "done"}

\* createIssue(input) up to await getNextIssueNumber(): the input is valid
\* and the number is taken from the files present now
CreateList(c, input) ==
    /\ Free(c)
    /\ ops < MaxOps
    /\ CanCreate
    /\ createError(input) = None
    /\ call' = [call EXCEPT ![c] =
                  [NoCall EXCEPT !.pc = "write", !.op = "createIssue", !.input = input,
                                 !.read = getNextIssueNumber, !.readAt = Len(plain)]]
    /\ ops' = ops + 1
    /\ UNCHANGED <<files, last, issued, plain, hist, run>>

\* createIssue from await writeFile(...) on: the file is written under the
\* number taken before, and the call returns
CreateWrite(c) ==
    LET issueNumber == call[c].read
        filename == Filename(issueNumber, createSlug(call[c].input.title))
    IN /\ call[c].pc = "write"
       /\ call[c].op = "createIssue"
       /\ files' = writeFile(filename, createFrontmatter(call[c].input))
       /\ plain' = Append(plain, c)
       /\ call' = [call EXCEPT ![c].pc = "done",
                               ![c].ret = [id |-> issueNumber, filename |-> filename],
                               ![c].at = Len(plain) + 1]
       /\ last' = Call("createIssue", <<>>, <<>>, issueNumber, None)
       /\ issued' = issued \cup {issueNumber}
       /\ UNCHANGED <<hist, run, ops>>

\* updateIssue(id, input) up to await getIssue(id): the issue is read from
\* the file present now, or the call throws
UpdateRead(c, id, input) ==
    /\ Free(c)
    /\ ops < MaxOps
    /\ IF IssueMatches(id) = {}
       THEN /\ call' = [call EXCEPT ![c] =
                          [NoCall EXCEPT !.pc = "done", !.op = "updateIssue", !.id = id,
                                         !.input = input, !.readAt = Len(plain),
                                         !.error = "Issue not found"]]
            /\ last' = Call("updateIssue", id, <<>>, <<>>, "Issue not found")
       ELSE /\ \E f \in IssueMatches(id) :
                 call' = [call EXCEPT ![c] =
                            [NoCall EXCEPT !.pc = "write", !.op = "updateIssue", !.id = id,
                                           !.input = input, !.read = IssueOf(f),
                                           !.readAt = Len(plain)]]
            /\ UNCHANGED last
    /\ ops' = ops + 1
    /\ UNCHANGED <<files, issued, plain, hist, run>>

\* the frontmatter updateIssue writes: the frontmatter it read, with the
\* fields of the input over it
updatedFrontmatter_rereads(c) ==
    updateFrontmatter(files[call[c].read.filename], call[c].input)

updatedFrontmatter(c) == updateFrontmatter(call[c].read.frontmatter, call[c].input)

\* updateIssue from await writeFile(...) on: the file it read is written
\* anew, and the call returns
UpdateWrite(c) ==
    /\ call[c].pc = "write"
    /\ call[c].op = "updateIssue"
    /\ files' = writeFile(call[c].read.filename, updatedFrontmatter(c))
    /\ plain' = Append(plain, c)
    /\ call' = [call EXCEPT ![c].pc = "done", ![c].ret = call[c].read.id,
                            ![c].at = Len(plain) + 1]
    /\ last' = Call("updateIssue", call[c].id, call[c].read.frontmatter, call[c].read.id, None)
    /\ UNCHANGED <<issued, hist, run, ops>>

\* the inputs of the overlapping updates: a new title, and a new status
RacePatches ==
    { UpdateInput(title, None, NoOrder) : title \in AllTitles }
      \cup { UpdateInput(<<>>, "closed", NoOrder) }

NextRace ==
    \/ \E c \in Callers, title \in AllTitles : CreateList(c, CreateInput(title, NoOrder))
    \/ \E c \in Callers : CreateWrite(c)
    \/ \E c \in Callers, id \in IdArgs, input \in RacePatches : UpdateRead(c, id, input)
    \/ \E c \in Callers : UpdateWrite(c)

SpecRace == InitRace /\ [][NextRace]_vars

\* the callers c and d have both finished a call op without an error, the
\* write of c came first, and d had read before that write: the calls
\* overlapped
Overlapped(op, c, d) ==
    /\ c # d
    /\ call[c].pc = "done" /\ call[c].op = op /\ call[c].error = None
    /\ call[d].pc = "done" /\ call[d].op = op /\ call[d].error = None
    /\ call[d].readAt < call[c].at
    /\ call[c].at < call[d].at

\* the fields an update input sets to a value other than that of fm
ChangedFields(input, fm) ==
    { field \in {"title", "status"} :
        /\ input[field] # (IF field = "title" THEN <<>> ELSE None)
        /\ input[field] # fm[field] }

\* the overlapping updates of c and d went to one file, and c changed a field
\* that d left alone
LosesUpdate(c, d) ==
    /\ Overlapped("updateIssue", c, d)
    /\ call[c].read.filename = call[d].read.filename
    /\ ChangedFields(call[c].input, call[d].read.frontmatter)
          \ ChangedFields(call[d].input, call[d].read.frontmatter) # {}
    /\ ChangedFields(call[d].input, call[d].read.frontmatter) # {}

\* C27: two updateIssue calls on one issue that overlap in time, each reading
\* the file before the other has written it and each changing a different
\* field, both succeed, and the file then holds only the change of the call
\* that wrote last: the field the other call changed has the value the last
\* writer read.
C27_LastWriteWins ==
    \A c, d \in Callers :
       LosesUpdate(c, d) =>
          LET f == call[d].read.filename
              fm == call[d].read.frontmatter
          IN /\ call[c].ret = call[d].ret
             /\ \A field \in ChangedFields(call[d].input, fm) :
                   files[f][field] = call[d].input[field]
             /\ \A field \in ChangedFields(call[c].input, fm)
                               \ ChangedFields(call[d].input, fm) :
                   /\ files[f][field] = fm[field]
                   /\ files[f][field] # call[c].input[field]

\* two overlapping updates of one issue have both returned, one with a new
\* title and one with the status closed, and the file holds one of the two
C27_Witness ==
    \E c, d \in Callers :
       /\ LosesUpdate(c, d)
       /\ call[c].input.title # <<>>
       /\ call[d].input.status = "closed"
       /\ files[call[d].read.filename].status = "closed"
       /\ files[call[d].read.filename].title # call[c].input.title

\* C28: when two createIssue calls interleave at their await points
\* (directory listing, then file write), they return different ids and both
\* issues exist as separate files afterwards.
C28_InterleavedCreatesDistinct ==
    \A c, d \in Callers :
       Overlapped("createIssue", c, d) =>
          /\ call[c].ret.id # call[d].ret.id
          /\ call[c].ret.filename # call[d].ret.filename
          /\ {call[c].ret.filename, call[d].ret.filename} \subseteq DOMAIN files

\* the same for two createIssue calls of which the second takes its number
\* after the write of the first
SequentialCreatesDistinct ==
    \A c, d \in Callers :
       (/\ c # d
        /\ call[c].pc = "done" /\ call[c].op = "createIssue"
        /\ call[d].pc = "done" /\ call[d].op = "createIssue"
        /\ call[c].at <= call[d].readAt)
          => /\ call[c].ret.id # call[d].ret.id
             /\ call[c].ret.filename # call[d].ret.filename
             /\ {call[c].ret.filename, call[d].ret.filename} \subseteq DOMAIN files

\* ---------------------------------------------------------------------
\* The file of an issue
\* ---------------------------------------------------------------------

\* C29: updateIssue, closeIssue and reopenIssue never change an issue's id
\* or filename: the call leaves the set of filenames as it was, so that after
\* any sequence of updates, including ones that change the title, the issue
\* is in the file it was created in and no second file for its id appears;
\* the id it returns is the id in the name of the file it wrote, and every
\* other file is as it was.
C29_UpdateKeepsFilename ==
    [][(ops' = ops + 1 /\ last'.op \in {"updateIssue", "closeIssue", "reopenIssue"}) =>
          /\ DOMAIN files' = DOMAIN files
          /\ \A f \in DOMAIN files : files'[f] # files[f] => f.id = last'.ret]_vars

\* an updateIssue has given an issue a title with another slug than the one
\* in the name of its file
C29_Witness ==
    /\ last.op = "updateIssue"
    /\ last.error = None
    /\ \E f \in DOMAIN files :
          /\ f.id = last.ret
          /\ files[f].title # last.read.title
          /\ createSlug(files[f].title) # f.slug

\* ---------------------------------------------------------------------
\* What createIssue returns
\* ---------------------------------------------------------------------

\* titles: a plain one, one that is written in quotes, and one with a newline
ColonTitle == <<"f", "i", "t", ":">>
NewlineTitle == <<"f", "i", NL, "t">>
ReturnTitles == { PlainTitle, ColonTitle, NewlineTitle }

\* the inputs of the calls: every title, without and with scope, labels and
\* order
ReturnInputs ==
    { CreateInput(title, NoOrder) : title \in ReturnTitles }
      \cup { [CreateInput(PlainTitle, <<Diga, 0>>) EXCEPT !.scope = "small", !.labels = "ui"] }

\* the Issue createIssue returns
createdIssue(input, body, issueNumber) ==
    [id |-> issueNumber,
     filename |-> Filename(issueNumber, createSlug(input.title)),
     frontmatter |-> createFrontmatter(input),
     content |-> <<NL>> \o (IF body = NoBody THEN Body ELSE body) \o <<NL>>]

\* createIssue(input) with input.body = body, down to the content written
\* and the Issue returned
CreateReturning(input, body) ==
    LET issueNumber == getNextIssueNumber
        filename == Filename(issueNumber, createSlug(input.title))
        text == IF body = NoBody THEN Body ELSE body
        content == generateFrontmatter(createFrontmatter(input)) \o <<NL>> \o text \o <<NL>>
    IN /\ CanCreate
       /\ createError(input) = None
       /\ files' = writeFile(filename, content)
       /\ last' = Call("createIssue", <<>>, <<>>, createdIssue(input, body, issueNumber), None)
       /\ issued' = issued \cup {issueNumber}
       /\ call' = TextCall(input, body)
       /\ hist' = "any"
       /\ plain' = <<>>
       /\ run' = NoRun
       /\ ops' = ops + 1

NextCreate == \E input \in ReturnInputs, body \in Bodies : CreateReturning(input, body)

SpecCreate == Init /\ [][NextCreate]_vars

\* the record getIssue(id) returns for the id the last createIssue returned
FoundAgain == { readIssue(f) : f \in IssueMatches(last.ret.id) }

\* C30: the record a successful createIssue returns equals the record
\* getIssue(id) returns immediately afterwards (same id, filename,
\* frontmatter fields and content string), for a given body and for the
\* default body template alike.
C30_CreateReturnsStoredIssue ==
    (last.op = "createIssue" /\ last.error = None) => FoundAgain = {last.ret}

\* the same without the content, for the titles without a newline
ReturnsStoredFrontmatter ==
    (last.op = "createIssue" /\ last.error = None /\ call.input.title # NewlineTitle)
        => /\ FoundAgain # {}
           /\ \A issue \in FoundAgain :
                 /\ issue.id = last.ret.id
                 /\ issue.filename = last.ret.filename
                 /\ issue.frontmatter = last.ret.frontmatter

\* the content createIssue returns is the content of the file behind one
\* more newline, for the titles without a newline
ReturnsContentBehindNewline ==
    (last.op = "createIssue" /\ last.error = None /\ call.input.title # NewlineTitle)
        => \A issue \in FoundAgain : last.ret.content = <<NL>> \o issue.content

====
